---- MODULE Spec2Model ----
(***************************************************************************)
(* Queue family allocation of neuron-engine's Device::new                  *)
(* (src/src/render/context/device.rs).                                     *)
(*                                                                         *)
(* The state is the set of locals of Device::new that are live between the *)
(* steps of the function; each action is one straight-line block or one    *)
(* iteration of a `for` loop over a HashMap (whose iteration order is      *)
(* unspecified, so the family visited next is chosen nondeterministically).*)
(*                                                                         *)
(* u32 arithmetic: `count -= 1` can go below zero.  With overflow checks   *)
(* (cargo's dev profile) this panics; without them (release profile) the   *)
(* value wraps modulo 2^32.  A wrapped value 2^32 - k is represented by    *)
(* the integer -k: every use of such a value in the code (`count > 0`,     *)
(* `end_index + count`, `count as usize`) is translated accordingly.       *)
(***************************************************************************)
EXTENDS Integers, Sequences, FiniteSets, TLC

\* ------------------------------------------------------------------ bounds
NumFamilies == 2      \* queue families reported by the physical device
MaxCap == 3           \* largest queue_count of a family
MaxCount == 2         \* largest count of a request returned by the host
MaxUser == 2          \* most requests returned by on_queue_selection

MaxExt == 2           \* most extension requests in one negotiation
MaxFeat == 2          \* most feature requests in one negotiation
MaxDevices == 2       \* most physical devices enumerated
MaxFrames == 3        \* render_frame calls of one run

Families == 0 .. (NumFamilies - 1)
\* the host may name a family index the device does not have
ReqFamilies == 0 .. NumFamilies

NoLabel == "None"
UserLabels == {NoLabel, "VideoDecode"}
QueueFlagBits == {"GRAPHICS", "COMPUTE", "TRANSFER"}

VARIABLES
    pc,                          \* position in Device::new
    queue_family_properties,     \* family -> [queue_flags, queue_count, can_present]
    queue_availability,          \* family -> remaining queues
    total_queue_availability,    \* family -> queue_count
    queue_requests,              \* combined request list
    strict_requests,             \* family -> summed strict count
    flexible_requests,           \* family -> summed flexible count
    strict_labels,               \* family -> sequence of labels
    flexible_labels,             \* family -> sequence of labels
    strict_labels_counts,        \* label -> family -> count
    flexible_labels_counts,      \* label -> family -> count
    labeled,                     \* label -> sequence of QueueRef
    unlabeled,                   \* family -> set of indices
    flexible_starts,             \* family -> first flexible index
    strict_todo,                 \* strict families the loop has not visited
    flexible_todo,               \* flexible families the loop has not visited
    priorities,                  \* family -> priority list
    overflow_checks,             \* "unset" until an overflow happens, then TRUE/FALSE
    result,                      \* outcome of the run
    \* VulkanContext::new and Engine::init
    events,                      \* host callbacks and native calls, in order
    requested_extensions,        \* sequence of ExtensionRequest
    available_extensions,        \* set of names the driver reports
    extensions_set,              \* resolved set of names
    physical_devices,            \* number of devices enumerated
    validated,                   \* answers of validate_physical_device, in order
    physical_device,             \* Option: the selected device
    requested_features,          \* sequence of DeviceFeatureRequest
    support,                     \* FeatureStructs the hardware reports
    features,                    \* Option: the FeatureStructs written
    \* WindowData
    current_frame,               \* frame slot of the next render_frame
    in_flight_fences,            \* frame slot -> "signaled" | "pending" | "unsignaled"
    surface,                     \* handle of the window's surface
    swapchain,                   \* handle of the swapchain (0 is the null handle)
    swapchain_configuration,     \* SwapchainConfiguration of the swapchain
    swapchain_resources,         \* SwapchainResources: the images of the swapchain
    swapchain_sync_resources,    \* SwapchainSyncResources: the handles of the three sets
    suboptimal,                  \* Option: the flag acquire_image returned
    frames                       \* render_frame calls started

vars == <<pc, queue_family_properties, queue_availability, total_queue_availability,
          queue_requests, strict_requests, flexible_requests, strict_labels,
          flexible_labels, strict_labels_counts, flexible_labels_counts, labeled,
          unlabeled, flexible_starts, strict_todo, flexible_todo, priorities,
          overflow_checks, result, events, requested_extensions,
          available_extensions, extensions_set, physical_devices, validated,
          physical_device, requested_features, support, features, current_frame,
          in_flight_fences, surface, swapchain, swapchain_configuration,
          swapchain_resources, swapchain_sync_resources, suboptimal, frames>>

\* the queue allocation of Device::new
device_vars == <<queue_family_properties, queue_availability, total_queue_availability,
                 queue_requests, strict_requests, flexible_requests, strict_labels,
                 flexible_labels, strict_labels_counts, flexible_labels_counts, labeled,
                 unlabeled, flexible_starts, strict_todo, flexible_todo, priorities,
                 overflow_checks>>

\* VulkanContext::new outside the queue allocation
context_vars == <<requested_extensions, available_extensions, extensions_set,
                  physical_devices, validated, physical_device, requested_features,
                  support, features>>

\* WindowData
frame_vars == <<current_frame, in_flight_fences, surface, swapchain,
                swapchain_configuration, swapchain_resources, swapchain_sync_resources,
                suboptimal, frames>>

\* ------------------------------------------------------------ map helpers
EmptyMap == << >>

\* HashMap::get(k).cloned().unwrap_or(d)
GetOr(m, k, d) == IF k \in DOMAIN m THEN m[k] ELSE d

\* HashMap::insert(k, v)
Insert(m, k, v) == [x \in (DOMAIN m) \cup {k} |-> IF x = k THEN v ELSE m[x]]

\* ------------------------------------------------------------- data types
QueueRequest(family, count, label, allow_merge) ==
    [family |-> family, count |-> count, label |-> label, allow_merge |-> allow_merge]

strict_labeled(family, count, label) == QueueRequest(family, count, label, FALSE)

flexible_labeled(family, count, label) == QueueRequest(family, count, label, TRUE)

QueueRef(family, index) == [family |-> family, index |-> index]

NotEnoughQueuesInFamily(family, req, avail) ==
    [kind |-> "NotEnoughQueuesInFamily", family |-> family, req |-> req, avail |-> avail]

\* --------------------------------------------------- role family selection
\* Option<u32> is the set {} (None) or {f} (Some(f)).
\* `queue_flags.contains(bits)`: every bit of `bits` is set
contains(queue_flags, bits) == bits \subseteq queue_flags

\* first family, in enumeration order, among those that satisfy a role's test
FirstFamily(hits) ==
    IF hits = {} THEN {} ELSE {CHOOSE f \in hits : \A g \in hits : f <= g}

IsGraphicsFamily(p) == contains(p.queue_flags, {"GRAPHICS"})

IsComputeFamily_Always(p) == TRUE

IsComputeFamily(p) == contains(p.queue_flags, {"COMPUTE"})

\* device.rs 71-75: TRANSFER set and not contains(GRAPHICS | COMPUTE)
IsExclusiveTransferFamily(p) ==
    /\ contains(p.queue_flags, {"TRANSFER"})
    /\ ~contains(p.queue_flags, {"GRAPHICS", "COMPUTE"})

CanPresent(p) == p.can_present

graphics_family(props) ==
    FirstFamily({f \in DOMAIN props : IsGraphicsFamily(props[f])})

compute_family(props) ==
    FirstFamily({f \in DOMAIN props : IsComputeFamily(props[f])})

transfer_family(props) ==
    FirstFamily({f \in DOMAIN props : IsExclusiveTransferFamily(props[f])})

presentation_family(props) ==
    FirstFamily({f \in DOMAIN props : CanPresent(props[f])})

TheFamily(opt) == CHOOSE f \in opt : TRUE

\* the engine's own requests, device.rs 115-163
TransferRequest(props) ==
    IF transfer_family(props) # {}
    THEN strict_labeled(TheFamily(transfer_family(props)), 1, "Transfer")
    ELSE flexible_labeled(TheFamily(graphics_family(props)), 1, "Transfer")

PresentationRequests(props) ==
    IF presentation_family(props) # {}
    THEN <<flexible_labeled(TheFamily(presentation_family(props)), 1, "Presentation")>>
    ELSE << >>

MandatoryRequests_ComputeFirst(props) ==
    <<flexible_labeled(TheFamily(compute_family(props)), 1, "Compute"),
      flexible_labeled(TheFamily(graphics_family(props)), 1, "Graphics"),
      TransferRequest(props)>>
    \o PresentationRequests(props)

MandatoryRequests(props) ==
    <<flexible_labeled(TheFamily(graphics_family(props)), 1, "Graphics"),
      flexible_labeled(TheFamily(compute_family(props)), 1, "Compute"),
      TransferRequest(props)>>
    \o PresentationRequests(props)

\* ------------------------------------------------- what the host may return
UserRequestUniverse ==
    {QueueRequest(f, n, l, m) :
        f \in ReqFamilies, n \in 1 .. MaxCount, l \in UserLabels, m \in BOOLEAN}

UserRequestLists == UNION {[1 .. n -> UserRequestUniverse] : n \in 0 .. MaxUser}

\* what the physical device may report
FamilyProperties ==
    [queue_flags : SUBSET QueueFlagBits, queue_count : 1 .. MaxCap, can_present : BOOLEAN]

\* ------------------------------------------------ partition, device.rs 171-264
\* one iteration of `for req in queue_requests`
PartitionStep(acc, req) ==
    LET f == req.family
        addCount(m) == Insert(m, f, GetOr(m, f, 0) + req.count)
        addLabel(m) == IF req.label = NoLabel THEN m
                       ELSE Insert(m, f, Append(GetOr(m, f, << >>), req.label))
        addTally(m) == IF req.label = NoLabel THEN m
                       ELSE LET counts == GetOr(m, req.label, EmptyMap)
                            IN  Insert(m, req.label,
                                       Insert(counts, f, GetOr(counts, f, 0) + req.count))
    IN  IF req.allow_merge
        THEN [acc EXCEPT !.flexible_requests = addCount(@),
                         !.flexible_labels = addLabel(@),
                         !.flexible_labels_counts = addTally(@)]
        ELSE [acc EXCEPT !.strict_requests = addCount(@),
                         !.strict_labels = addLabel(@),
                         !.strict_labels_counts = addTally(@)]

RECURSIVE PartitionFrom(_, _, _)
PartitionFrom(reqs, i, acc) ==
    IF i > Len(reqs) THEN acc
    ELSE PartitionFrom(reqs, i + 1, PartitionStep(acc, reqs[i]))

Partition(reqs) ==
    PartitionFrom(reqs, 1,
        [strict_requests |-> EmptyMap, flexible_requests |-> EmptyMap,
         strict_labels |-> EmptyMap, flexible_labels |-> EmptyMap,
         strict_labels_counts |-> EmptyMap, flexible_labels_counts |-> EmptyMap])


\* --------------------------------------------------- pushing a QueueRef
\* mutant: the new ref is put in front of the label's vector
PushRef_Prepend(lab, label, ref) == Insert(lab, label, <<ref>> \o GetOr(lab, label, << >>))

\* device.rs 309-319 and 409-413: push onto the label's vector, or insert it
PushRef(lab, label, ref) == Insert(lab, label, Append(GetOr(lab, label, << >>), ref))

\* strict_labels_counts.get(&label).and_then(|c| c.get(&family)).cloned().unwrap_or(1)
LabelCount(tallies, label, family) ==
    IF label \in DOMAIN tallies THEN GetOr(tallies[label], family, 1) ELSE 1

\* `count -= 1` on a u32: at 0 it panics under overflow checks, else it wraps
\* (the wrapped value 2^32 - k is written -k)
Decrement(count) == count - 1

\* ------------------------------------------- strict pass, device.rs 271-347
\* `for _ in 0..rc` of device.rs 304-322; acc = [labeled, end_index, count, overflowed, panic]
RECURSIVE StrictPushes(_, _, _, _, _)
StrictPushes(acc, family, label, rc, checks) ==
    IF rc = 0 \/ acc.panic THEN acc
    ELSE LET pushed == [acc EXCEPT
                 !.labeled = PushRef(@, label, QueueRef(family, acc.end_index)),
                 !.end_index = @ + 1]
         IN  IF acc.count = 0 /\ checks
             THEN [pushed EXCEPT !.overflowed = TRUE, !.panic = TRUE]
             ELSE StrictPushes(
                      [pushed EXCEPT !.count = Decrement(@),
                                     !.overflowed = @ \/ acc.count = 0],
                      family, label, rc - 1, checks)

\* `for label in labels` of device.rs 298-323
RECURSIVE StrictLabelLoop(_, _, _, _, _, _)
StrictLabelLoop(acc, family, labels, i, tallies, checks) ==
    IF i > Len(labels) \/ acc.panic THEN acc
    ELSE StrictLabelLoop(
             StrictPushes(acc, family, labels[i],
                          LabelCount(tallies, labels[i], family), checks),
             family, labels, i + 1, tallies, checks)

\* device.rs 279: `count > available.clone()`
StrictOverSubscribed(count, available) == count > available

\* mutant: the pending flexible demand is not added to the reported amount
StrictErrorReq_NoFlexibleMarker(count, family, flexibleFamilies) == count

\* device.rs 282: count + flexible_requests.get(&family).map(|_| 1).unwrap_or(0)
StrictErrorReq(count, family, flexibleFamilies) ==
    count + (IF family \in flexibleFamilies THEN 1 ELSE 0)

\* one iteration of `for (family, mut count) in strict_requests.clone()`;
\* st = [avail, labeled, unlabeled, flexible_starts] on entry
StrictFamily(st, family, count, labels, tallies, flexibleFamilies, total, checks) ==
    IF family \in DOMAIN st.avail /\ StrictOverSubscribed(count, st.avail[family])
    THEN [kind |-> "err",
          error |-> NotEnoughQueuesInFamily(
                        family,
                        StrictErrorReq(count, family, flexibleFamilies),
                        GetOr(total, family, 0))]
    ELSE LET avail == IF family \in DOMAIN st.avail
                      THEN [st.avail EXCEPT ![family] = @ - count]
                      ELSE st.avail
             acc == StrictLabelLoop(
                        [labeled |-> st.labeled, end_index |-> 0, count |-> count,
                         overflowed |-> FALSE, panic |-> FALSE],
                        family, labels, 1, tallies, checks)
             \* `if count > 0` on a u32: any nonzero value
             unl == IF acc.count # 0
                    THEN Insert(st.unlabeled, family,
                                acc.end_index .. (acc.end_index + acc.count - 1))
                    ELSE st.unlabeled
             endIndex == IF acc.count # 0 THEN acc.end_index + acc.count
                         ELSE acc.end_index
         IN  IF acc.panic
             THEN [kind |-> "panic", overflowed |-> TRUE]
             ELSE [kind |-> "ok", overflowed |-> acc.overflowed,
                   avail |-> avail, labeled |-> acc.labeled, unlabeled |-> unl,
                   flexible_starts |-> Insert(st.flexible_starts, family, endIndex)]


\* ----------------------------------------- flexible pass, device.rs 349-452
\* flexible_range.start + (o_index % flexible_range.len()) as u32
FlexibleIndex(start, len, o_index) == start + (o_index % len)

\* `for _ in 0..rc` of device.rs 406-422; acc = [labeled, o_index, count, overflowed, panic]
\* (a remainder by an empty range's length 0 panics in every build)
RECURSIVE FlexiblePushes(_, _, _, _, _, _, _)
FlexiblePushes(acc, family, label, rc, start, len, checks) ==
    IF rc = 0 \/ acc.panic THEN acc
    ELSE IF len = 0 THEN [acc EXCEPT !.panic = TRUE]
    ELSE LET pushed == [acc EXCEPT
                 !.labeled = PushRef(@, label,
                                 QueueRef(family, FlexibleIndex(start, len, acc.o_index))),
                 !.o_index = @ + 1]
         IN  IF acc.count = 0 /\ checks
             THEN [pushed EXCEPT !.overflowed = TRUE, !.panic = TRUE]
             ELSE FlexiblePushes(
                      [pushed EXCEPT !.count = Decrement(@),
                                     !.overflowed = @ \/ acc.count = 0],
                      family, label, rc - 1, start, len, checks)

\* `for label in labels` of device.rs 396-423
RECURSIVE FlexibleLabelLoop(_, _, _, _, _, _, _, _)
FlexibleLabelLoop(acc, family, labels, i, tallies, start, len, checks) ==
    IF i > Len(labels) \/ acc.panic THEN acc
    ELSE FlexibleLabelLoop(
             FlexiblePushes(acc, family, labels[i],
                            LabelCount(tallies, labels[i], family), start, len, checks),
             family, labels, i + 1, tallies, start, len, checks)

\* device.rs 428-430: the logical slots o_index .. o_index + count mapped into the
\* range.  A wrapped count 2^32 - k becomes, as usize (64 bit), a run of more than
\* `len` consecutive slots, which covers the whole range.
UnlabeledFlexibleIndices(start, len, o_index, count) ==
    IF count < 0
    THEN {start + j : j \in 0 .. (len - 1)}
    ELSE {FlexibleIndex(start, len, i) : i \in o_index .. (o_index + count - 1)}

\* device.rs 370-382: the remaining capacity after the flexible demand
AfterFlexible(available, count) == IF count > available THEN 0 ELSE available - count

\* device.rs 361: `available.clone() <= 0`
FlexibleExhausted(available) == available <= 0

\* mutant: the reported amount is the strict demand alone
FlexibleErrorReq_StrictOnly(strictReqs, family) == GetOr(strictReqs, family, 0)

\* device.rs 364 and 447: strict_requests.get(&family).cloned().unwrap_or(0) + 1
FlexibleErrorReq(strictReqs, family) == GetOr(strictReqs, family, 0) + 1

\* device.rs 384-385: flexible_starts.get(&family).cloned().unwrap_or(0)
FlexibleRangeStart(starts, family) == GetOr(starts, family, 0)

\* one iteration of `for (family, mut count) in flexible_requests`;
\* st = [avail, labeled, unlabeled, flexible_starts] on entry
FlexibleFamily(st, family, count, labels, tallies, strictReqs, total, checks) ==
    IF family \notin DOMAIN total
    THEN [kind |-> "err",
          error |-> NotEnoughQueuesInFamily(family, FlexibleErrorReq(strictReqs, family), 0)]
    ELSE IF family \notin DOMAIN st.avail
    THEN [kind |-> "ok", overflowed |-> FALSE, avail |-> st.avail,
          labeled |-> st.labeled, unlabeled |-> st.unlabeled]
    ELSE IF FlexibleExhausted(st.avail[family])
    THEN [kind |-> "err",
          error |-> NotEnoughQueuesInFamily(
                        family, FlexibleErrorReq(strictReqs, family), total[family])]
    ELSE LET avail == [st.avail EXCEPT ![family] = AfterFlexible(@, count)]
             start == FlexibleRangeStart(st.flexible_starts, family)
             \* (start..total).len()
             len == IF total[family] > start THEN total[family] - start ELSE 0
             acc == FlexibleLabelLoop(
                        [labeled |-> st.labeled, o_index |-> 0, count |-> count,
                         overflowed |-> FALSE, panic |-> FALSE],
                        family, labels, 1, tallies, start, len, checks)
         IN  IF acc.panic \/ (acc.count # 0 /\ len = 0)
             THEN [kind |-> "panic", overflowed |-> acc.overflowed]
             ELSE [kind |-> "ok", overflowed |-> acc.overflowed,
                   avail |-> avail, labeled |-> acc.labeled,
                   unlabeled |->
                       IF acc.count # 0
                       THEN Insert(st.unlabeled, family,
                                UnlabeledFlexibleIndices(start, len, acc.o_index, acc.count))
                       ELSE st.unlabeled]

\* ------------------------------ queue create infos, device.rs 454-489
\* repeat_n(1.0f32, n).collect()
Priorities(n) == [i \in 1 .. n |-> 1]

\* mutant: one priority per queue of the family, claimed or not
BuildPriorities_WholeFamily(total, avail) ==
    [f \in {g \in DOMAIN total : g \in DOMAIN avail /\ avail[g] # total[g]} |->
        Priorities(total[f])]

\* families whose remaining capacity equals the total are skipped
BuildPriorities(total, avail) ==
    [f \in {g \in DOMAIN total : g \in DOMAIN avail /\ avail[g] # total[g]} |->
        Priorities(total[f] - avail[f])]


\* ------------------------------- the whole allocation, device.rs 171-489
\* the families of a set in ascending order
RECURSIVE Ascending(_)
Ascending(S) ==
    IF S = {} THEN << >>
    ELSE LET m == CHOOSE x \in S : \A y \in S : x <= y
         IN  <<m>> \o Ascending(S \ {m})

\* the strict loop visiting the families in the given order; st carries kind = "ok"
RECURSIVE StrictPass(_, _, _, _, _, _)
StrictPass(st, order, i, p, total, checks) ==
    IF i > Len(order) \/ st.kind # "ok" THEN st
    ELSE StrictPass(
             StrictFamily(st, order[i], p.strict_requests[order[i]],
                          GetOr(p.strict_labels, order[i], << >>),
                          p.strict_labels_counts, DOMAIN p.flexible_requests,
                          total, checks),
             order, i + 1, p, total, checks)

\* the flexible loop visiting the families in the given order
RECURSIVE FlexiblePass(_, _, _, _, _, _)
FlexiblePass(st, order, i, p, total, checks) ==
    IF i > Len(order) \/ st.kind # "ok" THEN st
    ELSE FlexiblePass(
             [flexible_starts |-> st.flexible_starts]
                 @@ FlexibleFamily(st, order[i], p.flexible_requests[order[i]],
                                   GetOr(p.flexible_labels, order[i], << >>),
                                   p.flexible_labels_counts, p.strict_requests,
                                   total, checks),
             order, i + 1, p, total, checks)

\* the outcome of the allocation when the two loops visit the families in the
\* given orders: the maps and the created queue counts, or the failure
Allocate(reqs, total, strictOrder, flexibleOrder, checks) ==
    LET p == Partition(reqs)
        start == [kind |-> "ok", overflowed |-> FALSE, avail |-> total,
                  labeled |-> EmptyMap, unlabeled |-> EmptyMap,
                  flexible_starts |-> EmptyMap]
        st == FlexiblePass(StrictPass(start, strictOrder, 1, p, total, checks),
                           flexibleOrder, 1, p, total, checks)
    IN  IF st.kind = "err" THEN st.error
        ELSE IF st.kind = "panic" THEN [kind |-> "panic"]
        ELSE [kind |-> "allocated", labeled |-> st.labeled, unlabeled |-> st.unlabeled,
              created |-> [f \in DOMAIN BuildPriorities(total, st.avail) |->
                              Len(BuildPriorities(total, st.avail)[f])]]

\* --------------------- extension negotiation, instance.rs 74-111, device.rs 518-552
ExtensionNames == {"VK_KHR_swapchain", "VK_KHR_surface"}

ExtensionRequest(name, required) == [name |-> name, required |-> required]

\* what the request list may hold once the host's on_request_* callback, which
\* gets the list as `&mut Vec`, has returned
ExtensionRequestUniverse ==
    {ExtensionRequest(n, r) : n \in ExtensionNames, r \in BOOLEAN}

ExtensionRequestLists == UNION {[1 .. n -> ExtensionRequestUniverse] : n \in 0 .. MaxExt}

\* requested.iter().filter(|req| req.required == required
\*     && !available.contains(req.name)).map(|req| req.name).collect::<Vec<_>>()
RECURSIVE UnavailableFrom(_, _, _, _)
UnavailableFrom(requested, i, available, required) ==
    IF i > Len(requested) THEN << >>
    ELSE (IF requested[i].required = required /\ requested[i].name \notin available
          THEN <<requested[i].name>> ELSE << >>)
         \o UnavailableFrom(requested, i + 1, available, required)

Missing(requested, available) == UnavailableFrom(requested, 1, available, TRUE)

MissingOptionals(requested, available) == UnavailableFrom(requested, 1, available, FALSE)

\* requested.iter().filter(|req| available.contains(req.name)).map(..).collect::<HashSet<_>>()
ExtensionsSet_AllRequested(requested, available) ==
    {requested[i].name : i \in 1 .. Len(requested)}

ExtensionsSet(requested, available) ==
    {requested[i].name : i \in {j \in 1 .. Len(requested) : requested[j].name \in available}}

\* the negotiation: the error that names `missing`, or the resolved set
NegotiateExtensions(requested, available) ==
    IF Missing(requested, available) # << >>
    THEN [kind |-> "MissingRequiredExtensions", missing |-> Missing(requested, available)]
    ELSE [kind |-> "ok", extensions_set |-> ExtensionsSet(requested, available)]

\* ----------------------------------- feature negotiation, feature_request.rs 16-31
\* four of the DeviceFeature values; FeatureStructs is the set of its vk::Bool32
\* fields that hold vk::TRUE
DeviceFeatures ==
    {"DynamicRendering", "GeometryShader", "ShaderStorageBufferArrayNonUniformIndexing",
     "ShaderStorageTexelBufferArrayNonUniformIndexing"}

FeatureFields ==
    {"vk13.dynamic_rendering", "features1.geometry_shader",
     "vk12.shader_storage_buffer_array_non_uniform_indexing",
     "vk12.shader_storage_texel_buffer_array_non_uniform_indexing"}

\* FeatureStructs::feature_ref: the field read for a feature
feature_ref(feature) ==
    CASE feature = "DynamicRendering" -> "vk13.dynamic_rendering"
      [] feature = "GeometryShader" -> "features1.geometry_shader"
      [] feature = "ShaderStorageBufferArrayNonUniformIndexing" ->
             "vk12.shader_storage_buffer_array_non_uniform_indexing"
      [] feature = "ShaderStorageTexelBufferArrayNonUniformIndexing" ->
             "vk12.shader_storage_buffer_array_non_uniform_indexing"

\* FeatureStructs::feature_mut: the field written for a feature
feature_mut(feature) ==
    CASE feature = "DynamicRendering" -> "vk13.dynamic_rendering"
      [] feature = "GeometryShader" -> "features1.geometry_shader"
      [] feature = "ShaderStorageBufferArrayNonUniformIndexing" ->
             "vk12.shader_storage_buffer_array_non_uniform_indexing"
      [] feature = "ShaderStorageTexelBufferArrayNonUniformIndexing" ->
             "vk12.shader_storage_buffer_array_non_uniform_indexing"

\* FeatureStructs::get_list: one `if self.<field> == vk::TRUE { set.insert(..) }`
\* per feature
get_list(fs) ==
    (IF "features1.geometry_shader" \in fs THEN {"GeometryShader"} ELSE {})
    \cup (IF "vk12.shader_storage_buffer_array_non_uniform_indexing" \in fs
          THEN {"ShaderStorageBufferArrayNonUniformIndexing"} ELSE {})
    \cup (IF "vk12.shader_storage_texel_buffer_array_non_uniform_indexing" \in fs
          THEN {"ShaderStorageTexelBufferArrayNonUniformIndexing"} ELSE {})
    \cup (IF "vk13.dynamic_rendering" \in fs THEN {"DynamicRendering"} ELSE {})

DeviceFeatureRequest(feature, required) == [feature |-> feature, required |-> required]

DeviceFeatureRequestUniverse ==
    {DeviceFeatureRequest(f, r) : f \in DeviceFeatures, r \in BOOLEAN}

DeviceFeatureRequestLists ==
    UNION {[1 .. n -> DeviceFeatureRequestUniverse] : n \in 0 .. MaxFeat}

\* FeatureStructs::supports: self.feature_ref(feature).clone() == vk::TRUE
supports(sup, feature) == feature_ref(feature) \in sup

\* the loop of validate_and_write from request i on; acc is the fields written so far
RECURSIVE ValidateFrom(_, _, _, _)
ValidateFrom(sup, feature_requests, i, acc) ==
    IF i > Len(feature_requests) THEN [kind |-> "ok", features |-> acc]
    ELSE IF supports(sup, feature_requests[i].feature)
    THEN ValidateFrom(sup, feature_requests, i + 1,
                      acc \cup {feature_mut(feature_requests[i].feature)})
    ELSE IF feature_requests[i].required
    THEN [kind |-> "MissingRequiredFeature", missing |-> <<feature_requests[i].feature>>]
    ELSE ValidateFrom(sup, feature_requests, i + 1, acc)

validate_and_write(sup, feature_requests) == ValidateFrom(sup, feature_requests, 1, {})

\* ------------------------------------------------- lookups, device.rs 652-662
\* self.queue_labels.get(&label).and_then(|v| v.first()).cloned(), as an Option
get_labeled_queue_ref(lab, label) ==
    IF label \in DOMAIN lab /\ Len(lab[label]) > 0 THEN {lab[label][1]} ELSE {}

\* device.rs 602-614: the queues retrieved for each queue create info, one per
\* priority of the family
Queues(prio) == [f \in DOMAIN prio |-> [i \in 1 .. Len(prio[f]) |-> <<f, i - 1>>]]

\* device.rs 660-662: self.queues.get(&family).and_then(|q| q.get(index)).cloned(),
\* as an Option
get_queue(queues, queue_ref) ==
    IF queue_ref.family \in DOMAIN queues
       /\ queue_ref.index + 1 \in DOMAIN queues[queue_ref.family]
    THEN {queues[queue_ref.family][queue_ref.index + 1]} ELSE {}

\* ================================================================ actions
Running == [kind |-> "running"]

\* VulkanContext::new has not started
ContextIdle ==
    /\ requested_extensions = << >> /\ available_extensions = {} /\ extensions_set = {}
    /\ physical_devices = 0 /\ validated = << >> /\ physical_device = {}
    /\ requested_features = << >> /\ support = {} /\ features = {}

\* no window exists
FrameIdle ==
    /\ current_frame = 0 /\ in_flight_fences = << >> /\ surface = 0 /\ swapchain = 0
    /\ swapchain_configuration = << >> /\ swapchain_resources = << >>
    /\ swapchain_sync_resources = << >>
    /\ suboptimal = {} /\ frames = 0

Init ==
    /\ pc = "select"
    /\ queue_family_properties \in [Families -> FamilyProperties]
    /\ queue_availability = EmptyMap
    /\ total_queue_availability = EmptyMap
    /\ queue_requests = << >>
    /\ strict_requests = EmptyMap
    /\ flexible_requests = EmptyMap
    /\ strict_labels = EmptyMap
    /\ flexible_labels = EmptyMap
    /\ strict_labels_counts = EmptyMap
    /\ flexible_labels_counts = EmptyMap
    /\ labeled = EmptyMap
    /\ unlabeled = EmptyMap
    /\ flexible_starts = EmptyMap
    /\ strict_todo = {}
    /\ flexible_todo = {}
    /\ priorities = EmptyMap
    /\ overflow_checks = "unset"
    /\ result = Running
    /\ events = << >>
    /\ ContextIdle
    /\ FrameIdle

\* device.rs 48-163: fill the capacity tables, pick the role families, fail when
\* there is no graphics or no compute family, seed the engine's requests
SeedRequests ==
    /\ pc = "select"
    /\ queue_availability' =
           [f \in DOMAIN queue_family_properties |-> queue_family_properties[f].queue_count]
    /\ total_queue_availability' =
           [f \in DOMAIN queue_family_properties |-> queue_family_properties[f].queue_count]
    /\ IF graphics_family(queue_family_properties) = {}
       THEN /\ result' = [kind |-> "NoGraphicsFamily"]
            /\ pc' = "failed"
            /\ UNCHANGED queue_requests
       ELSE IF compute_family(queue_family_properties) = {}
       THEN /\ result' = [kind |-> "NoComputeFamily"]
            /\ pc' = "failed"
            /\ UNCHANGED queue_requests
       ELSE /\ queue_requests' = MandatoryRequests(queue_family_properties)
            /\ pc' = "queue_selection"
            /\ UNCHANGED result
    /\ UNCHANGED <<queue_family_properties, strict_requests, flexible_requests,
                   strict_labels, flexible_labels, strict_labels_counts,
                   flexible_labels_counts, labeled, unlabeled, flexible_starts,
                   strict_todo, flexible_todo, priorities, overflow_checks>>
    /\ UNCHANGED <<events, context_vars, frame_vars>>

\* device.rs 165-169: the host's callback returns more requests, which are appended
\* (queue_family_properties is moved into the call)
OnQueueSelection ==
    /\ pc = "queue_selection"
    /\ \E user_requests \in UserRequestLists :
           queue_requests' = queue_requests \o user_requests
    /\ queue_family_properties' = EmptyMap
    /\ pc' = "partition"
    /\ UNCHANGED <<queue_availability, total_queue_availability, strict_requests,
                   flexible_requests, strict_labels, flexible_labels,
                   strict_labels_counts, flexible_labels_counts, labeled, unlabeled,
                   flexible_starts, strict_todo, flexible_todo, priorities,
                   overflow_checks, result>>
    /\ UNCHANGED <<events, context_vars, frame_vars>>

\* device.rs 167: the callback fails and `?` returns its error
OnQueueSelectionFails ==
    /\ pc = "queue_selection"
    /\ queue_family_properties' = EmptyMap
    /\ result' = [kind |-> "CallbackError"]
    /\ pc' = "failed"
    /\ UNCHANGED <<queue_availability, total_queue_availability, queue_requests,
                   strict_requests, flexible_requests, strict_labels, flexible_labels,
                   strict_labels_counts, flexible_labels_counts, labeled, unlabeled,
                   flexible_starts, strict_todo, flexible_todo, priorities,
                   overflow_checks>>
    /\ UNCHANGED <<events, context_vars, frame_vars>>

\* where the function continues when `strict` and `flexible` families remain
AfterLoops(strict, flexible) ==
    IF strict # {} THEN "strict" ELSE IF flexible # {} THEN "flexible" ELSE "configure"

\* device.rs 171-264
PartitionRequests ==
    /\ pc = "partition"
    /\ \E p \in {Partition(queue_requests)} :
           /\ strict_requests' = p.strict_requests
           /\ flexible_requests' = p.flexible_requests
           /\ strict_labels' = p.strict_labels
           /\ flexible_labels' = p.flexible_labels
           /\ strict_labels_counts' = p.strict_labels_counts
           /\ flexible_labels_counts' = p.flexible_labels_counts
           /\ strict_todo' = DOMAIN p.strict_requests
           /\ flexible_todo' = DOMAIN p.flexible_requests
           /\ pc' = AfterLoops(DOMAIN p.strict_requests, DOMAIN p.flexible_requests)
    /\ UNCHANGED <<queue_family_properties, queue_availability, total_queue_availability,
                   queue_requests, labeled, unlabeled, flexible_starts, priorities,
                   overflow_checks, result>>
    /\ UNCHANGED <<events, context_vars, frame_vars>>

AllocState ==
    [avail |-> queue_availability, labeled |-> labeled, unlabeled |-> unlabeled,
     flexible_starts |-> flexible_starts]

\* the build's overflow behaviour is fixed by the first overflow of the run
BuildAllows(checks) == overflow_checks \in {"unset", checks}

\* one iteration of the strict loop, for the family the HashMap yields next
StrictStep(family, checks) ==
    /\ pc = "strict"
    /\ family \in strict_todo
    /\ BuildAllows(checks)
    /\ \E r \in {StrictFamily(AllocState, family, strict_requests[family],
                             GetOr(strict_labels, family, << >>), strict_labels_counts,
                             DOMAIN flexible_requests, total_queue_availability,
                             checks = "on")} :
           /\ strict_todo' = strict_todo \ {family}
           /\ overflow_checks' = IF r.kind # "err" /\ r.overflowed
                                 THEN checks ELSE overflow_checks
           /\ IF r.kind = "ok"
              THEN /\ queue_availability' = r.avail
                   /\ labeled' = r.labeled
                   /\ unlabeled' = r.unlabeled
                   /\ flexible_starts' = r.flexible_starts
                   /\ pc' = AfterLoops(strict_todo \ {family}, flexible_todo)
                   /\ UNCHANGED result
              ELSE /\ result' = IF r.kind = "err" THEN r.error ELSE [kind |-> "panic"]
                   /\ pc' = "failed"
                   /\ UNCHANGED <<queue_availability, labeled, unlabeled, flexible_starts>>
    /\ UNCHANGED <<queue_family_properties, total_queue_availability, queue_requests,
                   strict_requests, flexible_requests, strict_labels, flexible_labels,
                   strict_labels_counts, flexible_labels_counts, flexible_todo, priorities>>
    /\ UNCHANGED <<events, context_vars, frame_vars>>

\* one iteration of the flexible loop, for the family the HashMap yields next
FlexibleStep(family, checks) ==
    /\ pc = "flexible"
    /\ family \in flexible_todo
    /\ BuildAllows(checks)
    /\ \E r \in {FlexibleFamily(AllocState, family, flexible_requests[family],
                               GetOr(flexible_labels, family, << >>),
                               flexible_labels_counts, strict_requests,
                               total_queue_availability, checks = "on")} :
           /\ flexible_todo' = flexible_todo \ {family}
           /\ overflow_checks' = IF r.kind # "err" /\ r.overflowed
                                 THEN checks ELSE overflow_checks
           /\ IF r.kind = "ok"
              THEN /\ queue_availability' = r.avail
                   /\ labeled' = r.labeled
                   /\ unlabeled' = r.unlabeled
                   /\ pc' = AfterLoops({}, flexible_todo \ {family})
                   /\ UNCHANGED result
              ELSE /\ result' = IF r.kind = "err" THEN r.error ELSE [kind |-> "panic"]
                   /\ pc' = "failed"
                   /\ UNCHANGED <<queue_availability, labeled, unlabeled>>
    /\ UNCHANGED <<queue_family_properties, total_queue_availability, queue_requests,
                   strict_requests, flexible_requests, strict_labels, flexible_labels,
                   strict_labels_counts, flexible_labels_counts, flexible_starts,
                   strict_todo, priorities>>
    /\ UNCHANGED <<events, context_vars, frame_vars>>

\* device.rs 454-489: the queue create infos; the allocation has succeeded
ConfigureQueues ==
    /\ pc = "configure"
    /\ priorities' = BuildPriorities(total_queue_availability, queue_availability)
    /\ result' = [kind |-> "allocated"]
    /\ pc' = "allocated"
    /\ UNCHANGED <<queue_family_properties, queue_availability, total_queue_availability,
                   queue_requests, strict_requests, flexible_requests, strict_labels,
                   flexible_labels, strict_labels_counts, flexible_labels_counts,
                   labeled, unlabeled, flexible_starts, strict_todo, flexible_todo,
                   overflow_checks>>
    /\ UNCHANGED <<events, context_vars, frame_vars>>

Next ==
    \/ SeedRequests
    \/ OnQueueSelection
    \/ OnQueueSelectionFails
    \/ PartitionRequests
    \/ \E family \in ReqFamilies, checks \in {"on", "off"} : StrictStep(family, checks)
    \/ \E family \in ReqFamilies, checks \in {"on", "off"} : FlexibleStep(family, checks)
    \/ ConfigureQueues

Spec == Init /\ [][Next]_vars

\* ============================ Engine::init, VulkanContext::new, Instance::new
\* the queue allocation has not started
DeviceIdle ==
    /\ queue_family_properties = EmptyMap /\ queue_availability = EmptyMap
    /\ total_queue_availability = EmptyMap /\ queue_requests = << >>
    /\ strict_requests = EmptyMap /\ flexible_requests = EmptyMap
    /\ strict_labels = EmptyMap /\ flexible_labels = EmptyMap
    /\ strict_labels_counts = EmptyMap /\ flexible_labels_counts = EmptyMap
    /\ labeled = EmptyMap /\ unlabeled = EmptyMap /\ flexible_starts = EmptyMap
    /\ strict_todo = {} /\ flexible_todo = {} /\ priorities = EmptyMap
    /\ overflow_checks = "unset"

ContextInit ==
    /\ pc = "instance_new"
    /\ result = Running
    /\ events = << >>
    /\ DeviceIdle
    /\ ContextIdle
    /\ FrameIdle

\* a `?` returns the error: nothing else of the run happens
Fail(error) ==
    /\ pc' = "failed"
    /\ result' = error

NativeError == [kind |-> "NativeError"]

\* instance.rs 19-58: load the entry, query the system's required extensions, let
\* the host edit the request list
RequestInstanceExtensions ==
    /\ pc = "instance_new"
    /\ \/ /\ Fail(NativeError)
          /\ UNCHANGED <<events, requested_extensions>>
       \/ /\ events' = Append(events, "on_request_instance_extensions")
          /\ requested_extensions' \in ExtensionRequestLists
          /\ pc' = "instance_extensions"
          /\ UNCHANGED result
    /\ UNCHANGED <<available_extensions, extensions_set, physical_devices, validated,
                   physical_device, requested_features, support, features>>
    /\ UNCHANGED <<device_vars, frame_vars>>

\* instance.rs 62-111: enumerate the available extensions and negotiate
NegotiateInstanceExtensions ==
    /\ pc = "instance_extensions"
    /\ \/ /\ Fail(NativeError)
          /\ UNCHANGED <<events, available_extensions, extensions_set>>
       \/ \E available \in SUBSET ExtensionNames :
              \E r \in {NegotiateExtensions(requested_extensions, available)} :
                  /\ available_extensions' = available
                  /\ IF r.kind = "ok"
                     THEN /\ extensions_set' = r.extensions_set
                          /\ events' = Append(events, "on_resolve_instance_extensions")
                          /\ pc' = "create_instance"
                          /\ UNCHANGED result
                     ELSE /\ Fail(r)
                          /\ UNCHANGED <<events, extensions_set>>
    /\ UNCHANGED <<requested_extensions, physical_devices, validated, physical_device,
                   requested_features, support, features>>
    /\ UNCHANGED <<device_vars, frame_vars>>

\* instance.rs 118-151 and mod.rs 31: the application name and version are read, the
\* native instance is created, Instance::new returns and on_instance is called
CreateInstance ==
    /\ pc = "create_instance"
    /\ \/ /\ events' = events \o <<"name">>
          /\ Fail(NativeError)
       \/ /\ events' = events \o <<"name", "version", "create_instance">>
          /\ Fail(NativeError)
       \/ /\ events' = events \o <<"name", "version", "create_instance", "on_instance">>
          /\ pc' = "select_physical_device"
          /\ UNCHANGED result
    /\ requested_extensions' = << >>
    /\ available_extensions' = {}
    /\ extensions_set' = {}
    /\ UNCHANGED <<physical_devices, validated, physical_device, requested_features,
                   support, features>>
    /\ UNCHANGED <<device_vars, frame_vars>>



\* instance.rs 160: enumerate the physical devices
EnumeratePhysicalDevices ==
    /\ pc = "select_physical_device"
    /\ \/ /\ Fail(NativeError)
          /\ UNCHANGED physical_devices
       \/ /\ physical_devices' \in 0 .. MaxDevices
          /\ pc' = "validate_physical_device"
          /\ UNCHANGED result
    /\ UNCHANGED <<events, requested_extensions, available_extensions, extensions_set,
                   validated, physical_device, requested_features, support, features>>
    /\ UNCHANGED <<device_vars, frame_vars>>

ValidatePhysicalDevice_TakesFirstDevice ==
    /\ pc = "validate_physical_device"
    /\ Len(validated) < physical_devices
    /\ \E answer \in BOOLEAN :
           /\ validated' = Append(validated, answer)
           /\ physical_device' = {Len(validated)}
           /\ events' = events \o <<"validate_physical_device", "on_physical_device">>
           /\ pc' = "device_new"
    /\ UNCHANGED <<result, requested_extensions, available_extensions, extensions_set,
                   physical_devices, requested_features, support, features>>
    /\ UNCHANGED <<device_vars, frame_vars>>

\* instance.rs 162-171 and mod.rs 34: one iteration of the loop over the devices; the
\* host's predicate answers, a true answer returns the device and on_physical_device
\* is called
ValidatePhysicalDevice ==
    /\ pc = "validate_physical_device"
    /\ Len(validated) < physical_devices
    /\ \E answer \in BOOLEAN :
           /\ validated' = Append(validated, answer)
           /\ IF answer
              THEN /\ physical_device' = {Len(validated)}
                   /\ events' = events \o <<"validate_physical_device", "on_physical_device">>
                   /\ pc' = "device_new"
              ELSE /\ events' = Append(events, "validate_physical_device")
                   /\ UNCHANGED <<physical_device, pc>>
    /\ UNCHANGED <<result, requested_extensions, available_extensions, extensions_set,
                   physical_devices, requested_features, support, features>>
    /\ UNCHANGED <<device_vars, frame_vars>>

\* instance.rs 173: the loop ends without a device
NoSuitablePhysicalDevice ==
    /\ pc = "validate_physical_device"
    /\ Len(validated) = physical_devices
    /\ Fail([kind |-> "NoSuitablePhysicalDevice"])
    /\ UNCHANGED <<events, context_vars, device_vars, frame_vars>>

\* how the queue allocation of Device::new (device.rs 48-489, the specification
\* Spec) can end before on_queue_selection is called, and after it
QueueFailuresBeforeCallback == {"NativeError", "NoGraphicsFamily", "NoComputeFamily"}

QueueFailuresAfterCallback == {"CallbackError", "NotEnoughQueuesInFamily", "panic"}

\* device.rs 48-489: the allocation of the queues, by its outcome
SelectQueues ==
    /\ pc = "device_new"
    /\ \/ \E kind \in QueueFailuresBeforeCallback :
              /\ Fail([kind |-> kind])
              /\ UNCHANGED events
       \/ \E kind \in QueueFailuresAfterCallback :
              /\ Fail([kind |-> kind])
              /\ events' = Append(events, "on_queue_selection")
       \/ /\ events' = Append(events, "on_queue_selection")
          /\ pc' = "device_extensions"
          /\ UNCHANGED result
    /\ UNCHANGED <<context_vars, device_vars, frame_vars>>

\* device.rs 491-511: enumerate the device's extensions, let the host edit the list
RequestDeviceExtensions ==
    /\ pc = "device_extensions"
    /\ \/ /\ Fail(NativeError)
          /\ UNCHANGED <<events, requested_extensions, available_extensions>>
       \/ /\ available_extensions' \in SUBSET ExtensionNames
          /\ requested_extensions' \in ExtensionRequestLists
          /\ events' = Append(events, "on_request_device_extensions")
          /\ pc' = "negotiate_device_extensions"
          /\ UNCHANGED result
    /\ UNCHANGED <<extensions_set, physical_devices, validated, physical_device,
                   requested_features, support, features>>
    /\ UNCHANGED <<device_vars, frame_vars>>

\* device.rs 518-552
NegotiateDeviceExtensions ==
    /\ pc = "negotiate_device_extensions"
    /\ \E r \in {NegotiateExtensions(requested_extensions, available_extensions)} :
           IF r.kind = "ok"
           THEN /\ extensions_set' = r.extensions_set
                /\ events' = Append(events, "on_resolve_device_extensions")
                /\ pc' = "features"
                /\ UNCHANGED result
           ELSE /\ Fail(r)
                /\ UNCHANGED <<events, extensions_set>>
    /\ UNCHANGED <<requested_extensions, available_extensions, physical_devices,
                   validated, physical_device, requested_features, support, features>>
    /\ UNCHANGED <<device_vars, frame_vars>>

\* device.rs 559-571: the host edits the feature requests, the hardware's features
\* are read
RequestFeatures ==
    /\ pc = "features"
    /\ requested_features' \in DeviceFeatureRequestLists
    /\ support' \in SUBSET FeatureFields
    /\ events' = Append(events, "on_request_features")
    /\ pc' = "validate_features"
    /\ UNCHANGED <<result, requested_extensions, available_extensions, extensions_set,
                   physical_devices, validated, physical_device, features>>
    /\ UNCHANGED <<device_vars, frame_vars>>

\* device.rs 578-587
ValidateFeatures ==
    /\ pc = "validate_features"
    /\ \E r \in {validate_and_write(support, requested_features)} :
           IF r.kind = "ok"
           THEN /\ features' = {r.features}
                /\ events' = Append(events, "on_resolve_features")
                /\ pc' = "create_device"
                /\ UNCHANGED result
           ELSE /\ Fail(r)
                /\ UNCHANGED <<events, features>>
    /\ UNCHANGED <<requested_extensions, available_extensions, extensions_set,
                   physical_devices, validated, physical_device, requested_features,
                   support>>
    /\ UNCHANGED <<device_vars, frame_vars>>

CreateDevice_NotifiesBeforeCreation ==
    /\ pc = "create_device"
    /\ \/ /\ events' = Append(events, "create_device")
          /\ Fail(NativeError)
       \/ /\ events' = events \o <<"on_device", "create_device">>
          /\ pc' = "engine_ready"
          /\ UNCHANGED result
    /\ requested_extensions' = << >>
    /\ available_extensions' = {}
    /\ extensions_set' = {}
    /\ requested_features' = << >>
    /\ support' = {}
    /\ features' = {}
    /\ UNCHANGED <<physical_devices, validated, physical_device>>
    /\ UNCHANGED <<device_vars, frame_vars>>

\* device.rs 589-630 and mod.rs 36-43: the native device is created, Device::new
\* returns, on_device is called and VulkanContext::new returns
CreateDevice ==
    /\ pc = "create_device"
    /\ \/ /\ events' = Append(events, "create_device")
          /\ Fail(NativeError)
       \/ /\ events' = events \o <<"create_device", "on_device">>
          /\ pc' = "engine_ready"
          /\ UNCHANGED result
    /\ requested_extensions' = << >>
    /\ available_extensions' = {}
    /\ extensions_set' = {}
    /\ requested_features' = << >>
    /\ support' = {}
    /\ features' = {}
    /\ UNCHANGED <<physical_devices, validated, physical_device>>
    /\ UNCHANGED <<device_vars, frame_vars>>

\* lib.rs 142-154: on_engine_ready may fail and abort
EngineReady ==
    /\ pc = "engine_ready"
    /\ events' = Append(events, "on_engine_ready")
    /\ \/ Fail([kind |-> "CallbackError"])
       \/ pc' = "ready" /\ result' = [kind |-> "ready"]
    /\ UNCHANGED <<context_vars, device_vars, frame_vars>>

ContextNext ==
    \/ RequestInstanceExtensions
    \/ NegotiateInstanceExtensions
    \/ CreateInstance
    \/ EnumeratePhysicalDevices
    \/ ValidatePhysicalDevice
    \/ NoSuitablePhysicalDevice
    \/ SelectQueues
    \/ RequestDeviceExtensions
    \/ NegotiateDeviceExtensions
    \/ RequestFeatures
    \/ ValidateFeatures
    \/ CreateDevice
    \/ EngineReady

ContextSpec == ContextInit /\ [][ContextNext]_vars

\* ===================================================== WindowData::render_frame
MAX_FRAMES_IN_FLIGHT == 2

FrameSlots == 0 .. (MAX_FRAMES_IN_FLIGHT - 1)

\* VkResult codes: success, the two staleness codes, and one other error
StaleCodes == {"SUBOPTIMAL_KHR", "ERROR_OUT_OF_DATE_KHR"}

ErrorCodes == {"ERROR_OUT_OF_DATE_KHR", "ERROR_DEVICE_LOST"}

\* VkResult<bool> of render_frame_inner, VkResult<()> of render_frame
Ok(value) == [kind |-> "Ok", value |-> value]

OkUnit == [kind |-> "Ok"]

Err(code) == [kind |-> "Err", code |-> code]

\* one native call or callback of a render_frame call, on a frame slot
Step(op, slot, code) == [op |-> op, slot |-> slot, code |-> code]

\* window.rs 309-346 and 373-383: the step that follows a step that succeeded
AfterStep_ResetBeforeAcquire(op) ==
    CASE op = "wait_for_fence" -> "reset_fence"
      [] op = "reset_fence" -> "acquire_next_image"
      [] op = "acquire_next_image" -> "callback"
      [] op = "callback" -> "queue_present"

AfterStep(op) ==
    CASE op = "wait_for_fence" -> "acquire_next_image"
      [] op = "acquire_next_image" -> "reset_fence"
      [] op = "reset_fence" -> "callback"
      [] op = "callback" -> "queue_present"

\* window.rs 386-395: the results of render_frame_inner that reconfigure the swapchain
NeedsReconfigure_OnlyWhenSuboptimal(inner) ==
    \/ inner.kind = "Ok" /\ inner.value
    \/ inner.kind = "Err" /\ inner.code = "SUBOPTIMAL_KHR"

NeedsReconfigure(inner) ==
    \/ inner.kind = "Ok" /\ inner.value
    \/ inner.kind = "Err" /\ inner.code \in StaleCodes

\* window.rs 22-30
SwapchainConfiguration(format, color_space, extent) ==
    [format |-> format, color_space |-> color_space, extent |-> extent]

\* the extents the surface may report
Extents == {"800x600", "1024x768"}

\* the numbers of images the driver may create
ImageCounts == {2, 3}

\* window.rs 28-30: the images of a swapchain are its own
SwapchainResources(handle, n) == [images |-> [i \in 1 .. n |-> <<handle, i>>]]

\* window.rs 32-36 and 99-105: one semaphore or fence per frame slot and set
SwapchainSyncResources ==
    [image_available |-> [slot \in FrameSlots |-> <<"image_available", slot>>],
     render_finished |-> [slot \in FrameSlots |-> <<"render_finished", slot>>],
     in_flight_fences |-> [slot \in FrameSlots |-> <<"in_flight_fence", slot>>]]

\* window.rs 157-283: a native call fails with `code` and `?` returns it, or a new
\* swapchain (a fresh handle) is created for the extent and with the images the
\* driver answers
setup_swapchain(old_swapchain, code, extent, n) ==
    IF code # "SUCCESS" THEN Err(code)
    ELSE [kind |-> "Ok",
          swapchain |-> old_swapchain + 1,
          swapchain_configuration |->
              SwapchainConfiguration("B8G8R8A8_SRGB", "SRGB_NONLINEAR", extent),
          swapchain_resources |-> SwapchainResources(old_swapchain + 1, n)]

\* the fields of the WindowData
Self(frame) ==
    [surface |-> surface, swapchain |-> swapchain,
     swapchain_configuration |-> swapchain_configuration,
     swapchain_resources |-> swapchain_resources,
     swapchain_sync_resources |-> swapchain_sync_resources,
     current_frame |-> frame]

reconfigure_swapchain_AssignsNullOnFailure(self, r) ==
    IF r.kind = "Ok"
    THEN [self EXCEPT !.swapchain = r.swapchain,
                      !.swapchain_configuration = r.swapchain_configuration,
                      !.swapchain_resources = r.swapchain_resources]
    ELSE [self EXCEPT !.swapchain = 0]

\* window.rs 142-155: the three fields are assigned from what setup_swapchain
\* returned; its error is returned by `?` before the assignment
reconfigure_swapchain(self, r) ==
    IF r.kind = "Ok"
    THEN [self EXCEPT !.swapchain = r.swapchain,
                      !.swapchain_configuration = r.swapchain_configuration,
                      !.swapchain_resources = r.swapchain_resources]
    ELSE self

\* window.rs 121-139: the window WindowData::new returns
FrameInit ==
    /\ pc = "idle"
    /\ result = Running
    /\ events = << >>
    /\ queue_family_properties = EmptyMap /\ queue_availability = EmptyMap
    /\ total_queue_availability = EmptyMap /\ queue_requests = << >>
    /\ strict_requests = EmptyMap /\ flexible_requests = EmptyMap
    /\ strict_labels = EmptyMap /\ flexible_labels = EmptyMap
    /\ strict_labels_counts = EmptyMap /\ flexible_labels_counts = EmptyMap
    /\ labeled \in {EmptyMap, [l \in {"Presentation"} |-> <<QueueRef(0, 0)>>]}
    /\ unlabeled = EmptyMap /\ flexible_starts = EmptyMap
    /\ strict_todo = {} /\ flexible_todo = {} /\ priorities = EmptyMap
    /\ overflow_checks = "unset"
    /\ ContextIdle
    /\ current_frame = 0
    /\ in_flight_fences = [slot \in FrameSlots |-> "signaled"]
    /\ surface = 1
    /\ \E extent \in Extents, n \in ImageCounts :
           \E r \in {setup_swapchain(0, "SUCCESS", extent, n)} :
               /\ swapchain = r.swapchain
               /\ swapchain_configuration = r.swapchain_configuration
               /\ swapchain_resources = r.swapchain_resources
    /\ swapchain_sync_resources = SwapchainSyncResources
    /\ suboptimal = {}
    /\ frames = 0

\* the window's fields become those of `self`
Assign(self) ==
    /\ surface' = self.surface
    /\ swapchain' = self.swapchain
    /\ swapchain_configuration' = self.swapchain_configuration
    /\ swapchain_resources' = self.swapchain_resources
    /\ swapchain_sync_resources' = self.swapchain_sync_resources
    /\ current_frame' = self.current_frame

\* window.rs 385-397: render_frame_inner has returned `inner` after `steps` and has
\* left current_frame at `frame`; the match returns, or reconfigures the swapchain
\* and returns what that returns
Return(inner, steps, slot, frame) ==
    /\ pc' = "idle"
    /\ suboptimal' = {}
    /\ IF NeedsReconfigure(inner)
       THEN \E code \in {"SUCCESS", "ERROR_DEVICE_LOST"}, extent \in Extents,
               n \in ImageCounts :
                \E r \in {setup_swapchain(swapchain, code, extent, n)} :
                    /\ events' = Append(steps, Step("reconfigure_swapchain", slot, code))
                    /\ Assign(reconfigure_swapchain(Self(frame), r))
                    /\ result' = IF r.kind = "Ok" THEN OkUnit ELSE r
       ELSE /\ events' = steps
            /\ Assign(Self(frame))
            /\ result' = IF inner.kind = "Ok" THEN OkUnit ELSE inner

\* the step `op` succeeded: render_frame_inner goes on
GoOn(op, code) ==
    /\ events' = Append(events, Step(op, current_frame, code))
    /\ pc' = AfterStep(op)
    /\ UNCHANGED <<result, current_frame, surface, swapchain, swapchain_configuration,
                   swapchain_resources, swapchain_sync_resources>>

\* window.rs 373-374 and 385: a render_frame call starts by looking up the
\* Presentation queue, `expect` panics without one
RenderFrame ==
    /\ pc = "idle"
    /\ frames < MaxFrames
    /\ frames' = frames + 1
    /\ events' = << >>
    /\ IF get_labeled_queue_ref(labeled, "Presentation") = {}
       THEN pc' = "panicked" /\ result' = [kind |-> "panic"]
       ELSE pc' = "wait_for_fence" /\ result' = Running
    /\ UNCHANGED <<current_frame, in_flight_fences, surface, swapchain,
                   swapchain_configuration, swapchain_resources,
                   swapchain_sync_resources, suboptimal>>
    /\ UNCHANGED <<device_vars, context_vars>>

\* window.rs 310-311: wait, without timeout, for the fence of the current slot
WaitForFence ==
    /\ pc = "wait_for_fence"
    /\ \/ /\ in_flight_fences[current_frame] = "signaled"
          /\ GoOn("wait_for_fence", "SUCCESS")
          /\ UNCHANGED suboptimal
       \/ Return(Err("ERROR_DEVICE_LOST"),
                 Append(events, Step("wait_for_fence", current_frame, "ERROR_DEVICE_LOST")),
                 current_frame, current_frame)
    /\ UNCHANGED <<in_flight_fences, frames>>
    /\ UNCHANGED <<device_vars, context_vars>>

\* window.rs 313-326: SUBOPTIMAL_KHR comes back as Ok((index, true))
AcquireNextImage ==
    /\ pc = "acquire_next_image"
    /\ \/ \E code \in {"SUCCESS", "SUBOPTIMAL_KHR"} :
              /\ GoOn("acquire_next_image", code)
              /\ suboptimal' = {code = "SUBOPTIMAL_KHR"}
       \/ \E code \in ErrorCodes :
              Return(Err(code),
                     Append(events, Step("acquire_next_image", current_frame, code)),
                     current_frame, current_frame)
    /\ UNCHANGED <<in_flight_fences, frames>>
    /\ UNCHANGED <<device_vars, context_vars>>

\* window.rs 330-331
ResetFence ==
    /\ pc = "reset_fence"
    /\ \/ /\ GoOn("reset_fence", "SUCCESS")
          /\ in_flight_fences' = [in_flight_fences EXCEPT ![current_frame] = "unsignaled"]
          /\ UNCHANGED suboptimal
       \/ /\ Return(Err("ERROR_DEVICE_LOST"),
                    Append(events, Step("reset_fence", current_frame, "ERROR_DEVICE_LOST")),
                    current_frame, current_frame)
          /\ UNCHANGED in_flight_fences
    /\ UNCHANGED frames
    /\ UNCHANGED <<device_vars, context_vars>>

\* window.rs 378: the host's render callback; it may submit work that signals the
\* fence of the slot, and may return any VkResult error
RenderCallback ==
    /\ pc = "callback"
    /\ \E submits \in BOOLEAN :
           in_flight_fences' = IF submits
                               THEN [in_flight_fences EXCEPT ![current_frame] = "pending"]
                               ELSE in_flight_fences
    /\ \/ /\ GoOn("callback", "SUCCESS")
          /\ UNCHANGED suboptimal
       \/ \E code \in StaleCodes \cup ErrorCodes :
              Return(Err(code), Append(events, Step("callback", current_frame, code)),
                     current_frame, current_frame)
    /\ UNCHANGED frames
    /\ UNCHANGED <<device_vars, context_vars>>

QueuePresent_AdvancesOnFailure ==
    /\ pc = "queue_present"
    /\ \/ \E code \in {"SUCCESS", "SUBOPTIMAL_KHR"} :
              Return(Ok(CHOOSE flag \in suboptimal : TRUE),
                     Append(events, Step("queue_present", current_frame, code)),
                     current_frame, (current_frame + 1) % MAX_FRAMES_IN_FLIGHT)
       \/ \E code \in ErrorCodes :
              Return(Err(code),
                     Append(events, Step("queue_present", current_frame, code)),
                     current_frame, (current_frame + 1) % MAX_FRAMES_IN_FLIGHT)
    /\ UNCHANGED <<in_flight_fences, frames>>
    /\ UNCHANGED <<device_vars, context_vars>>

\* window.rs 348-371 and 380-382: present; a successful present advances
\* current_frame; the flag queue_present returns is dropped and render_frame_inner
\* returns the flag of the acquisition
QueuePresent ==
    /\ pc = "queue_present"
    /\ \/ \E code \in {"SUCCESS", "SUBOPTIMAL_KHR"} :
              Return(Ok(CHOOSE flag \in suboptimal : TRUE),
                     Append(events, Step("queue_present", current_frame, code)),
                     current_frame, (current_frame + 1) % MAX_FRAMES_IN_FLIGHT)
       \/ \E code \in ErrorCodes :
              Return(Err(code),
                     Append(events, Step("queue_present", current_frame, code)),
                     current_frame, current_frame)
    /\ UNCHANGED <<in_flight_fences, frames>>
    /\ UNCHANGED <<device_vars, context_vars>>

\* the device finishes the work submitted with a fence
GpuSignals ==
    /\ \E slot \in FrameSlots :
           /\ in_flight_fences[slot] = "pending"
           /\ in_flight_fences' = [in_flight_fences EXCEPT ![slot] = "signaled"]
    /\ UNCHANGED <<pc, result, events, current_frame, surface, swapchain,
                   swapchain_configuration, swapchain_resources,
                   swapchain_sync_resources, suboptimal, frames>>
    /\ UNCHANGED <<device_vars, context_vars>>

FrameNext ==
    \/ RenderFrame
    \/ WaitForFence
    \/ AcquireNextImage
    \/ ResetFence
    \/ RenderCallback
    \/ QueuePresent
    \/ GpuSignals

FrameSpec == FrameInit /\ [][FrameNext]_vars

\* window.rs 310-311 and mod.rs 146-148: the fence wait, which has no timeout,
\* returns without an error; it can do so only once the fence is signaled
WaitForFenceSucceeds == WaitForFence /\ pc' = "acquire_next_image"

\* scheduling of a frame: the device completes the work submitted with a fence,
\* the fence wait returns once its fence is signaled, and the other native calls
\* and the host's callback return
FrameFairness ==
    /\ WF_vars(GpuSignals)
    /\ WF_vars(WaitForFenceSucceeds)
    /\ WF_vars(AcquireNextImage)
    /\ WF_vars(ResetFence)
    /\ WF_vars(RenderCallback)
    /\ WF_vars(QueuePresent)

FrameLiveSpec == FrameInit /\ [][FrameNext]_vars /\ FrameFairness

\* ============================================================ properties
\* The quantities the properties speak of are computed from the combined request
\* list and the capacity table, not from the allocator's own tallies.

\* sum of the counts of the requests among reqs[1..n] on family f of one kind
RECURSIVE SumCounts(_, _, _, _)
SumCounts(reqs, n, f, merge) ==
    IF n = 0 THEN 0
    ELSE SumCounts(reqs, n - 1, f, merge)
         + (IF reqs[n].family = f /\ reqs[n].allow_merge = merge THEN reqs[n].count ELSE 0)

\* total strict demand S of a family
StrictDemand(f) == SumCounts(queue_requests, Len(queue_requests), f, FALSE)

\* total flexible demand F of a family
FlexibleDemand(f) == SumCounts(queue_requests, Len(queue_requests), f, TRUE)

\* capacity C of a family
Capacity(f) == total_queue_availability[f]

\* the families of the capacity table
KnownFamilies == DOMAIN total_queue_availability

\* the positions <<label, i>> of the labeled map that hold a QueueRef of family f
RefsOf(lab, f) ==
    {<<l, i>> \in UNION {{l} \X (1 .. Len(lab[l])) : l \in DOMAIN lab} : lab[l][i].family = f}

\* the queue indices of family f stored under label l
IndicesUnder(lab, l, f) ==
    {lab[l][i].index : i \in {j \in 1 .. Len(lab[l]) : lab[l][j].family = f}}

Allocating == pc \in {"strict", "flexible", "configure", "allocated"}

\* the strict loop has ended and the flexible loop has not begun
StrictPassDone ==
    /\ pc \in {"flexible", "configure"}
    /\ strict_todo = {}
    /\ flexible_todo = DOMAIN flexible_requests

\* the run ended with a capacity error raised by the strict loop
StrictPassError ==
    /\ pc = "failed"
    /\ result.kind = "NotEnoughQueuesInFamily"
    /\ flexible_todo = DOMAIN flexible_requests

\* the run ended with a capacity error raised by the flexible loop
FlexiblePassError ==
    /\ pc = "failed"
    /\ result.kind = "NotEnoughQueuesInFamily"
    /\ flexible_todo # DOMAIN flexible_requests


\* all queue indices of family f stored under some label
LabeledIndices(lab, f) == UNION {IndicesUnder(lab, l, f) : l \in DOMAIN lab}

\* C1: when the strict loop has ended, every family whose strict demand S fits its
\* capacity C (1 <= S <= C) has exactly S slots reserved, they are the indices
\* 0 .. S-1, and no index is stored under two different labels.
C1_StrictIndicesExact ==
    StrictPassDone =>
        \A f \in KnownFamilies :
            LET S == StrictDemand(f)
            IN  (1 <= S /\ S <= Capacity(f)) =>
                    /\ Cardinality(RefsOf(labeled, f))
                           + Cardinality(GetOr(unlabeled, f, {})) = S
                    /\ LabeledIndices(labeled, f) \cup GetOr(unlabeled, f, {})
                           = 0 .. (S - 1)
                    /\ \A l1, l2 \in DOMAIN labeled :
                           l1 # l2 =>
                               IndicesUnder(labeled, l1, f)
                                   \cap IndicesUnder(labeled, l2, f) = {}


OverSubscribed(f) == StrictDemand(f) > Capacity(f)

\* the capacity error the strict loop raises for family f
StrictCapacityError(f) ==
    NotEnoughQueuesInFamily(
        f, StrictDemand(f) + (IF FlexibleDemand(f) > 0 THEN 1 ELSE 0), Capacity(f))

VisitsFlexible(f) == pc = "flexible" /\ f \in flexible_todo /\ f \notin flexible_todo'

\* the refs this step appends under label l
NewRefs(l) ==
    SubSeq(labeled'[l], Len(GetOr(labeled, l, << >>)) + 1, Len(labeled'[l]))

\* how many refs this step appends in all
RECURSIVE SumLen(_, _)
SumLen(lab, ls) ==
    IF ls = {} THEN 0
    ELSE LET l == CHOOSE x \in ls : TRUE
         IN  Len(lab[l]) + SumLen(lab, ls \ {l})

NewRefCount == SumLen(labeled', DOMAIN labeled') - SumLen(labeled, DOMAIN labeled)

\* the indices this step assigns under labels
NewLabeledIndices ==
    UNION {{NewRefs(l)[i].index : i \in 1 .. Len(NewRefs(l))} : l \in DOMAIN labeled'}

\* the indices this step records as unlabeled for family f
NewUnlabeledIndices(f) == IF unlabeled' # unlabeled THEN unlabeled'[f] ELSE {}

\* one step of C3
C3_Step ==
    \A f \in KnownFamilies :
        (VisitsFlexible(f) /\ StrictDemand(f) + FlexibleDemand(f) <= Capacity(f)) =>
            /\ pc' # "failed"
            /\ NewRefCount + Cardinality(NewUnlabeledIndices(f)) = FlexibleDemand(f)
            /\ NewLabeledIndices \cup NewUnlabeledIndices(f)
                   = StrictDemand(f) .. (StrictDemand(f) + FlexibleDemand(f) - 1)

\* C3: when the flexible loop visits a family with S + F <= C, the step does not
\* fail and hands out exactly F flexible slots whose indices are pairwise distinct
\* and fill [S, S+F).
C3_FlexibleDistinct == [][C3_Step]_vars

AllLabels == {"Graphics", "Compute", "Transfer", "Presentation"} \cup (UserLabels \ {NoLabel})

\* flexible demand of family f that carries a label
RECURSIVE LabeledFlexibleDemand(_, _, _)
LabeledFlexibleDemand(reqs, n, f) ==
    IF n = 0 THEN 0
    ELSE LabeledFlexibleDemand(reqs, n - 1, f)
         + (IF reqs[n].family = f /\ reqs[n].allow_merge /\ reqs[n].label # NoLabel
            THEN reqs[n].count ELSE 0)

\* the index of the k-th flexible slot of a family with S strict slots and C queues
WrappedIndex(S, C, k) == S + (k % (C - S))

\* the indices label l is due on family f, in request order: the labeled flexible
\* requests on f take consecutive slot numbers k, k+1, .. as they occur in reqs
RECURSIVE ExpectedFlexible(_, _, _, _, _, _, _)
ExpectedFlexible(reqs, i, k, l, f, S, C) ==
    IF i > Len(reqs) THEN << >>
    ELSE IF reqs[i].family = f /\ reqs[i].allow_merge /\ reqs[i].label # NoLabel
    THEN (IF reqs[i].label = l
          THEN [j \in 1 .. reqs[i].count |-> WrappedIndex(S, C, k + j - 1)]
          ELSE << >>)
         \o ExpectedFlexible(reqs, i + 1, k + reqs[i].count, l, f, S, C)
    ELSE ExpectedFlexible(reqs, i + 1, k, l, f, S, C)

\* the indices of the refs this step appends under label l, in order
NewIndexSeq(l) ==
    IF l \in DOMAIN labeled'
    THEN [i \in 1 .. Len(NewRefs(l)) |-> NewRefs(l)[i].index]
    ELSE << >>

\* one step of C4
C4_Step ==
    \A f \in KnownFamilies :
        LET S == StrictDemand(f)
            F == FlexibleDemand(f)
            C == Capacity(f)
            FL == LabeledFlexibleDemand(queue_requests, Len(queue_requests), f)
        IN  (VisitsFlexible(f) /\ S < C /\ S + F > C) =>
                /\ pc' # "failed"
                /\ queue_availability'[f] = 0
                /\ \A l \in AllLabels :
                       NewIndexSeq(l) = ExpectedFlexible(queue_requests, 1, 0, l, f, S, C)
                /\ NewUnlabeledIndices(f) = {WrappedIndex(S, C, k) : k \in FL .. (F - 1)}

\* C4: when the flexible loop visits a family with S < C and S + F > C, the step
\* does not fail, the family's remaining capacity becomes 0, and the k-th flexible
\* slot (request order, labels before the unlabeled remainder) gets the index
\* S + (k mod (C - S)).
C4_FlexibleWraps == [][C4_Step]_vars


\* one step of C5
C5_Step ==
    \A f \in ReqFamilies :
        (VisitsFlexible(f) /\ GetOr(queue_availability, f, 0) = 0) =>
            /\ pc' = "failed"
            /\ result' = NotEnoughQueuesInFamily(
                             f, StrictDemand(f) + 1, GetOr(total_queue_availability, f, 0))

\* C5: when the flexible loop reaches a family whose remaining capacity is zero (a
\* family the device does not have has none), the run fails with a capacity error
\* carrying that family, req = strict demand + 1 and avail = the family's total
\* capacity.
C5_FlexibleExhausted == [][C5_Step]_vars

\* C5 witness: the flexible loop has failed on a family of the device whose queues
\* were all taken by strict requests
C5_Witness ==
    /\ FlexiblePassError
    /\ result.family \in KnownFamilies
    /\ StrictDemand(result.family) = Capacity(result.family)
    /\ queue_availability[result.family] = 0


\* C6: after a successful allocation every family of the device with strict or
\* flexible demand has a priority list whose length is its total capacity minus its
\* remaining capacity, and a family without demand has no queue-creation entry.
C6_CreatedQueueCounts ==
    pc = "allocated" =>
        /\ DOMAIN priorities \subseteq KnownFamilies
        /\ \A f \in KnownFamilies :
               IF StrictDemand(f) + FlexibleDemand(f) > 0
               THEN /\ f \in DOMAIN priorities
                    /\ Len(priorities[f]) = Capacity(f) - queue_availability[f]
                    /\ Len(priorities[f]) >= 1
               ELSE f \notin DOMAIN priorities

\* C6 witness: a successful allocation with a family that has strict and flexible
\* demand and a family without any demand
C6_Witness ==
    /\ pc = "allocated"
    /\ \E f \in KnownFamilies : StrictDemand(f) > 0 /\ FlexibleDemand(f) > 0
    /\ \E f \in KnownFamilies : StrictDemand(f) + FlexibleDemand(f) = 0

\* the families of the refs label l is due, in the order of the requests that carry l
RECURSIVE ExpectedFamilies(_, _, _)
ExpectedFamilies(reqs, i, l) ==
    IF i > Len(reqs) THEN << >>
    ELSE (IF reqs[i].label = l
          THEN [j \in 1 .. reqs[i].count |-> reqs[i].family]
          ELSE << >>)
         \o ExpectedFamilies(reqs, i + 1, l)

\* the families of the refs stored under label l, in stored order
StoredFamilies(l) ==
    IF l \in DOMAIN labeled THEN [i \in 1 .. Len(labeled[l]) |-> labeled[l][i].family]
    ELSE << >>

\* the distinct elements of a sequence, in the order of their first occurrence
RECURSIVE FirstOccurrences(_, _)
FirstOccurrences(seq, n) ==
    IF n = 0 THEN << >>
    ELSE LET before == FirstOccurrences(seq, n - 1)
         IN  IF \E i \in 1 .. (n - 1) : seq[i] = seq[n] THEN before
             ELSE Append(before, seq[n])

\* how often x occurs in a sequence
Occurrences(seq, x) == Cardinality({i \in 1 .. Len(seq) : seq[i] = x})

\* C7: after a successful allocation, every label's stored sequence holds the refs
\* of every request that carries the label (at least as many refs of each family
\* as those requests ask for), its families appear in the order in which the
\* requests name them, and get_labeled_queue_ref returns a ref of the earliest
\* request that carries the label.
C7_LabelsInRequestOrder ==
    pc = "allocated" =>
        \A l \in AllLabels :
            LET want == ExpectedFamilies(queue_requests, 1, l)
                have == StoredFamilies(l)
            IN  /\ \A f \in ReqFamilies : Occurrences(have, f) >= Occurrences(want, f)
                /\ FirstOccurrences(have, Len(have)) = FirstOccurrences(want, Len(want))
                /\ want # << >> =>
                       \E r \in get_labeled_queue_ref(labeled, l) : r.family = want[1]


\* the families named by the requests of one kind that carry label l
FamiliesCarrying(l, merge) ==
    {queue_requests[i].family :
        i \in {j \in 1 .. Len(queue_requests) :
                  queue_requests[j].label = l /\ queue_requests[j].allow_merge = merge}}

\* the number of maximal runs of x in a sequence
Runs(seq, x) ==
    Cardinality({i \in 1 .. Len(seq) : seq[i] = x /\ (i = 1 \/ seq[i - 1] # x)})

\* C7 amended: after a successful allocation every label's stored sequence holds
\* the refs of every request that carries the label; the refs are in allocation
\* order: those of strict requests before those of flexible requests, one
\* contiguous run per family and pass; get_labeled_queue_ref returns a ref of a
\* strict request when the label has one, else of a flexible request.
C7_LabelsInAllocationOrder ==
    pc = "allocated" =>
        \A l \in AllLabels :
            LET want == ExpectedFamilies(queue_requests, 1, l)
                have == StoredFamilies(l)
                strict == FamiliesCarrying(l, FALSE)
                flexible == FamiliesCarrying(l, TRUE)
            IN  /\ \A f \in ReqFamilies :
                       /\ Occurrences(have, f) >= Occurrences(want, f)
                       /\ Runs(have, f) <= (IF f \in strict THEN 1 ELSE 0)
                                           + (IF f \in flexible THEN 1 ELSE 0)
                /\ want = << >> => get_labeled_queue_ref(labeled, l) = {}
                /\ want # << >> =>
                       \E r \in get_labeled_queue_ref(labeled, l) :
                           r.family \in (IF strict # {} THEN strict ELSE flexible)

\* C7 witness: a successful allocation in which a label's first stored ref belongs
\* to a strict request although a flexible request on another family carries the
\* label earlier in the request list
C7_Witness ==
    /\ pc = "allocated"
    /\ \E l \in AllLabels :
           LET want == ExpectedFamilies(queue_requests, 1, l)
           IN  /\ want # << >>
               /\ want[1] \notin FamiliesCarrying(l, FALSE)
               /\ \E r \in get_labeled_queue_ref(labeled, l) :
                      r.family \in FamiliesCarrying(l, FALSE) /\ r.family # want[1]


\* one step of C8: before the flexible loop visits family f every slot of f was
\* assigned by the strict loop
C8_Step ==
    \A f \in KnownFamilies :
        (VisitsFlexible(f) /\ pc' # "failed") =>
            LET held == LabeledIndices(labeled, f) \cup GetOr(unlabeled, f, {})
                strictSlots == Cardinality(RefsOf(labeled, f))
                                   + Cardinality(GetOr(unlabeled, f, {}))
                new == NewLabeledIndices \cup NewUnlabeledIndices(f)
            IN  /\ new \subseteq strictSlots .. (Capacity(f) - 1)
                /\ new \cap held = {}

\* C8: every index the flexible loop assigns in a family lies in [S, C), S being
\* the number of slots the strict loop assigned in that family and C its capacity,
\* so no index held by a strict request is shared with a flexible request.
C8_FlexibleAfterStrict == [][C8_Step]_vars


\* the outcome of a finished allocation run
Outcome ==
    IF pc = "allocated"
    THEN [kind |-> "allocated", labeled |-> labeled, unlabeled |-> unlabeled,
          created |-> [f \in DOMAIN priorities |-> Len(priorities[f])]]
    ELSE result

AllocationEnded ==
    \/ pc = "allocated"
    \/ pc = "failed" /\ result.kind \in {"NotEnoughQueuesInFamily", "panic"}

\* C9: the outcome of an allocation run does not depend on the order in which the
\* loops visit the families: it is the outcome of the run that visits the strict
\* and the flexible families in ascending order.
C9_Deterministic ==
    AllocationEnded =>
        Outcome = Allocate(queue_requests, total_queue_availability,
                           Ascending(DOMAIN strict_requests),
                           Ascending(DOMAIN flexible_requests),
                           overflow_checks = "on")


\* the families with the transfer flag set and the graphics and compute flags both clear
TransferOnlyFamilies ==
    {f \in Families :
        /\ "TRANSFER" \in queue_family_properties[f].queue_flags
        /\ "GRAPHICS" \notin queue_family_properties[f].queue_flags
        /\ "COMPUTE" \notin queue_family_properties[f].queue_flags}

\* C10: the engine's Transfer request is strict, of count 1, on the lowest family
\* with the transfer flag set and the graphics and compute flags both clear, and
\* flexible, of count 1, on the graphics family when there is no such family.
C10_TransferRequest ==
    pc = "queue_selection" =>
        LET req == queue_requests[3]
        IN  /\ req.label = "Transfer"
            /\ req.count = 1
            /\ IF TransferOnlyFamilies # {}
               THEN /\ ~req.allow_merge
                    /\ req.family \in TransferOnlyFamilies
                    /\ \A f \in TransferOnlyFamilies : req.family <= f
               ELSE /\ req.allow_merge
                    /\ {req.family} = graphics_family(queue_family_properties)


\* the labels of a request list, in order
LabelsOf(reqs) == [i \in 1 .. Len(reqs) |-> reqs[i].label]

\* the labels of the engine's own requests for the reported families
MandatoryLabels ==
    <<"Graphics", "Compute", "Transfer">>
    \o (IF \E f \in DOMAIN queue_family_properties : queue_family_properties[f].can_present
        THEN <<"Presentation">> ELSE << >>)

IsPrefix(a, b) == Len(a) <= Len(b) /\ SubSeq(b, 1, Len(a)) = a

C11_Step ==
    \* the callback is reached with exactly the engine's requests, in order
    /\ pc = "queue_selection" =>
           /\ LabelsOf(queue_requests) = MandatoryLabels
           /\ \A i \in 1 .. Len(queue_requests) : queue_requests[i].count = 1
    \* what the callback returns is appended after them
    /\ (pc = "queue_selection" /\ pc' = "partition") =>
           /\ IsPrefix(queue_requests, queue_requests')
           /\ \A i \in (Len(queue_requests) + 1) .. Len(queue_requests') :
                  queue_requests'[i] \in UserRequestUniverse
    \* the allocator works on that list: nothing is seeded or appended later
    /\ pc \notin {"select", "queue_selection"} => queue_requests' = queue_requests
    \* the allocator starts only once the callback has returned
    /\ (pc' = "partition" /\ pc # "partition") => pc = "queue_selection"

\* C11: the combined request list begins with the engine's requests in the order
\* Graphics, Compute, Transfer, then Presentation when a family can present;
\* on_queue_selection runs after they are seeded, sees exactly them, and what it
\* returns is appended after them and is the list the allocator partitions.
C11_MandatoryFirst == [][C11_Step]_vars

C11_Witness ==
    /\ pc = "partition"
    /\ Len(queue_requests) = 4 + MaxUser
    /\ queue_requests[4].label = "Presentation"
    /\ queue_requests[5].label = "VideoDecode"


HasFlag(bit) ==
    \E f \in DOMAIN queue_family_properties : bit \in queue_family_properties[f].queue_flags

NothingAllocated ==
    /\ strict_requests = EmptyMap /\ flexible_requests = EmptyMap
    /\ labeled = EmptyMap /\ unlabeled = EmptyMap /\ priorities = EmptyMap

AllocatorFailure == {"NotEnoughQueuesInFamily", "panic"}

C12_Step ==
    \* the collector's own checks: a graphics and a compute family must exist
    /\ pc = "select" =>
           /\ pc' = "failed" <=> (~HasFlag("GRAPHICS") \/ ~HasFlag("COMPUTE"))
           /\ pc' = "failed" =>
                  /\ result'.kind = IF ~HasFlag("GRAPHICS") THEN "NoGraphicsFamily"
                                    ELSE "NoComputeFamily"
                  /\ queue_requests' = << >>
           /\ pc' # "failed" => pc' = "queue_selection"
    \* past them the only failure of the collection is the callback's
    /\ pc = "queue_selection" =>
           /\ pc' \in {"failed", "partition"}
           /\ pc' = "failed" => result'.kind = "CallbackError"
           /\ pc' = "partition" => result' = Running
    \* a failed collection is final and allocates nothing
    /\ (pc = "failed" /\ result.kind \notin AllocatorFailure) =>
           /\ NothingAllocated
           /\ pc' = "failed" /\ result' = result

NoPresentationRequest(reqs) == \A i \in 1 .. Len(reqs) : reqs[i].label # "Presentation"

\* the combined list is the engine's three requests alone: no family can present
\* and the host returned nothing
OnlyEngineRequestsNoPresentation ==
    /\ pc \notin {"select", "queue_selection"}
    /\ result.kind # "CallbackError"
    /\ LabelsOf(queue_requests) = <<"Graphics", "Compute", "Transfer">>

\* C13: when no family can present and the host adds no Presentation request, no
\* Presentation request is in the list, the run does not fail, and
\* get_labeled_queue_ref(Presentation) is absent once the allocation is done.
C13_CompletesWithoutPresentation ==
    OnlyEngineRequestsNoPresentation =>
        /\ NoPresentationRequest(queue_requests)
        /\ pc # "failed"
        /\ pc = "allocated" => get_labeled_queue_ref(labeled, "Presentation") = {}


\* the extension negotiation of Instance::new or Device::new has ended
ExtensionsResolved == pc \in {"create_instance", "features"}

ExtensionsRefused == pc = "failed" /\ result.kind = "MissingRequiredExtensions"

RequestedNames == {requested_extensions[i].name : i \in 1 .. Len(requested_extensions)}

RequiredUnavailable ==
    {requested_extensions[i].name :
        i \in {j \in 1 .. Len(requested_extensions) :
                 /\ requested_extensions[j].required
                 /\ requested_extensions[j].name \notin available_extensions}}

SeqRange(seq) == {seq[i] : i \in 1 .. Len(seq)}

\* C14: the extension negotiation (instance and device) fails exactly when a request
\* marked required names an unavailable extension, with an error naming exactly
\* the required and unavailable names; otherwise the resolved set is the set of
\* requested names that are available, unavailable optional ones being left out.
C14_ExtensionNegotiation ==
    /\ ExtensionsRefused =>
           /\ RequiredUnavailable # {}
           /\ SeqRange(result.missing) = RequiredUnavailable
    /\ ExtensionsResolved =>
           /\ RequiredUnavailable = {}
           /\ extensions_set = RequestedNames \cap available_extensions

C14_Witness ==
    /\ pc = "features"
    /\ extensions_set = {"VK_KHR_swapchain"}
    /\ \E i \in 1 .. Len(requested_extensions) :
           /\ ~requested_extensions[i].required
           /\ requested_extensions[i].name \notin available_extensions


MissingRequiredFeatures ==
    {requested_features[i].feature :
        i \in {j \in 1 .. Len(requested_features) :
                 /\ requested_features[j].required
                 /\ requested_features[j].feature \notin get_list(support)}}

\* C15: when required features are not supported, validate_and_write fails with an
\* error that names every missing required feature.
C15_AllMissingFeaturesNamed ==
    /\ (pc = "failed" /\ result.kind = "MissingRequiredFeature") =>
           SeqRange(result.missing) = MissingRequiredFeatures
    /\ pc = "create_device" => MissingRequiredFeatures = {}


\* the features the host asked for
RequestedFeatures ==
    {requested_features[i].feature : i \in 1 .. Len(requested_features)}

\* C21: when the feature negotiation succeeds, the list of the resolved features
\* (get_list of what validate_and_write returned) is the set of the requested
\* features that are in the list of the available features (get_list of the
\* hardware's support structure).
C21_ResolvedIsIntersection ==
    pc = "create_device" =>
        \A fs \in features : get_list(fs) = RequestedFeatures \cap get_list(support)

\* the host callbacks of an initialization run, in the order of the lifecycle
LifecycleOrder ==
    <<"on_request_instance_extensions", "on_resolve_instance_extensions", "on_instance",
      "validate_physical_device", "on_physical_device", "on_queue_selection",
      "on_request_device_extensions", "on_resolve_device_extensions",
      "on_request_features", "on_resolve_features", "on_device", "on_engine_ready">>

IsLifecycleCallback(e) == e \in SeqRange(LifecycleOrder)

\* the callbacks invoked so far
CallbackTrace == SelectSeq(events, IsLifecycleCallback)

Rank(e) == CHOOSE i \in 1 .. Len(LifecycleOrder) : LifecycleOrder[i] = e

\* a prefix of the lifecycle in which validate_physical_device may repeat
FollowsLifecycle(trace) ==
    /\ trace # << >> => Rank(trace[1]) = 1
    /\ \A i \in 1 .. (Len(trace) - 1) :
           \/ Rank(trace[i + 1]) = Rank(trace[i]) + 1
           \/ trace[i] = "validate_physical_device" /\ trace[i + 1] = trace[i]

\* every occurrence of `later` in the events comes after an occurrence of `earlier`
Precedes(earlier, later) ==
    \A i \in 1 .. Len(events) :
        events[i] = later => \E j \in 1 .. (i - 1) : events[j] = earlier

C16_Order ==
    /\ FollowsLifecycle(CallbackTrace)
    /\ pc = "ready" => CallbackTrace[Len(CallbackTrace)] = "on_engine_ready"
    /\ (pc = "failed" /\ result.kind # "CallbackError") =>
           "on_engine_ready" \notin SeqRange(events)
    /\ Precedes("on_resolve_instance_extensions", "create_instance")
    /\ Precedes("on_resolve_device_extensions", "create_device")
    /\ Precedes("on_resolve_features", "create_device")
    /\ Precedes("create_device", "on_device")
    /\ Precedes("create_instance", "on_instance")

\* a step of a run that has not failed: what was invoked stays invoked
C16_Step == pc # "failed" /\ IsPrefix(events, events')

\* C16: the callbacks of an initialization run are invoked in the order of the
\* lifecycle, validate_physical_device one or more times; a failed run has
\* invoked a prefix of it and invokes nothing more, a finished run has invoked all
\* of it, and the resolve callbacks come before the creation of the native
\* instance and device.
C16_CallbackOrder == []C16_Order /\ [][C16_Step]_vars

C16_Witness ==
    /\ pc = "ready"
    /\ Len(CallbackTrace) = Len(LifecycleOrder) + 1
    /\ validated = <<FALSE, TRUE>>


\* the loop of select_physical_device has ended
DeviceSelectionEnded ==
    \/ physical_device # {}
    \/ pc = "failed" /\ result.kind = "NoSuitablePhysicalDevice"

FrameOrder ==
    <<"wait_for_fence", "acquire_next_image", "reset_fence", "callback", "queue_present">>

IsInnerStep(e) == e.op # "reconfigure_swapchain"

\* the steps render_frame_inner has taken in the current render_frame call
InnerSteps == SelectSeq(events, IsInnerStep)

\* the step returned without an error
Succeeded(e) ==
    \/ e.code = "SUCCESS"
    \/ e.op \in {"acquire_next_image", "queue_present"} /\ e.code = "SUBOPTIMAL_KHR"

\* C18: in one render_frame call the steps are, in this order, the wait for the
\* in-flight fence of the current slot, the acquisition, the reset of that fence,
\* the host's render callback and the presentation; a step runs only when every
\* earlier one succeeded, and every step works on the slot whose fence wait came first.
C18_FrameStepOrder ==
    /\ Len(InnerSteps) <= Len(FrameOrder)
    /\ \A i \in 1 .. Len(InnerSteps) :
           /\ InnerSteps[i].op = FrameOrder[i]
           /\ InnerSteps[i].slot = InnerSteps[1].slot
           /\ i < Len(InnerSteps) => Succeeded(InnerSteps[i])
    /\ pc \in SeqRange(FrameOrder) =>
           /\ events = InnerSteps
           /\ pc = FrameOrder[Len(events) + 1]
           /\ \A i \in 1 .. Len(events) : Succeeded(events[i]) /\ events[i].slot = current_frame

C18_Witness ==
    /\ pc = "idle"
    /\ frames = 2
    /\ Len(InnerSteps) = Len(FrameOrder)
    /\ InnerSteps[1].slot = 1
    /\ InnerSteps[Len(FrameOrder)].code = "SUCCESS"


\* the render_frame call has returned
FrameReturned == pc = "idle" /\ frames > 0

\* the acquisition or the presentation of the call reported a stale swapchain
StaleReported ==
    \E i \in 1 .. Len(events) :
        /\ events[i].op \in {"acquire_next_image", "queue_present"}
        /\ events[i].code \in StaleCodes

Reconfigured == \E i \in 1 .. Len(events) : events[i].op = "reconfigure_swapchain"

\* C19: when the acquisition or the presentation of a render_frame call reports
\* the swapchain suboptimal or out of date, reconfigure_swapchain has run by the
\* time the call returns.
C19_StaleReconfigures == (FrameReturned /\ StaleReported) => Reconfigured


\* the step that ended render_frame_inner with an error, as an Option
EndingError ==
    IF InnerSteps # << >> /\ ~Succeeded(InnerSteps[Len(InnerSteps)])
    THEN {InnerSteps[Len(InnerSteps)].code} ELSE {}

\* what reconfigure_swapchain returned in this call
ReconfigureResult ==
    LET e == CHOOSE x \in SeqRange(events) : x.op = "reconfigure_swapchain"
    IN  IF e.code = "SUCCESS" THEN OkUnit ELSE Err(e.code)

\* C20: render_frame returns the error that ended the frame unchanged unless it is
\* SUBOPTIMAL_KHR or ERROR_OUT_OF_DATE_KHR; when one of those two ends the frame
\* it is not returned: the swapchain is reconfigured and render_frame returns what
\* the reconfiguration returns.
C20_ErrorsSurfaced ==
    FrameReturned =>
        \A code \in EndingError :
            IF code \in StaleCodes
            THEN Reconfigured /\ result = ReconfigureResult
            ELSE ~Reconfigured /\ result = Err(code)

C20_Witness ==
    /\ FrameReturned
    /\ EndingError = {"ERROR_OUT_OF_DATE_KHR"}
    /\ InnerSteps[Len(InnerSteps)].op = "queue_present"
    /\ result = OkUnit


\* a step of an allocation run keeps every entry of the labeled map where it is
C22_Step ==
    \A l \in DOMAIN labeled :
        /\ l \in DOMAIN labeled'
        /\ IsPrefix(labeled[l], labeled'[l])

\* C22: during an allocation run the sequence stored under each label only grows
\* by appending: an entry, once written by the strict or the flexible pass, is
\* never changed, moved to another label or removed by a later step.
C22_LabelsOnlyAppend == [][C22_Step]_vars

\* a label holds a QueueRef written by the strict pass followed by one of another
\* family written by the flexible pass
C22_Witness ==
    /\ pc = "allocated"
    /\ \E l \in DOMAIN labeled :
           /\ Len(labeled[l]) >= 2
           /\ labeled[l][1].family \in DOMAIN strict_requests
           /\ labeled[l][2].family \in DOMAIN flexible_requests
           /\ labeled[l][1].family # labeled[l][2].family


\* the step ends a render_frame call whose last act was reconfigure_swapchain,
\* which returned `code`
ReconfigureRan(code) ==
    /\ pc # "idle"
    /\ pc' = "idle"
    /\ events' # << >>
    /\ events'[Len(events')] = Step("reconfigure_swapchain", current_frame, code)

\* the step is one in which the presentation of the frame succeeded
PresentSucceeds ==
    /\ pc = "queue_present"
    /\ \E e \in SeqRange(events') : e.op = "queue_present" /\ Succeeded(e)

C23_Step ==
    \A code \in {"SUCCESS", "ERROR_DEVICE_LOST"} :
        ReconfigureRan(code) =>
            /\ surface' = surface
            /\ swapchain_sync_resources' = swapchain_sync_resources
            /\ current_frame' = IF PresentSucceeds
                                THEN (current_frame + 1) % MAX_FRAMES_IN_FLIGHT
                                ELSE current_frame
            /\ IF code = "SUCCESS"
               THEN /\ swapchain' \notin {0, swapchain}
                    /\ swapchain_configuration' \in
                           {SwapchainConfiguration("B8G8R8A8_SRGB", "SRGB_NONLINEAR", e) :
                               e \in Extents}
                    /\ Len(swapchain_resources'.images) \in ImageCounts
                    /\ \A i \in DOMAIN swapchain_resources'.images :
                           swapchain_resources'.images[i][1] = swapchain'
               ELSE /\ swapchain' = swapchain
                    /\ swapchain_configuration' = swapchain_configuration
                    /\ swapchain_resources' = swapchain_resources

\* C23: reconfigure_swapchain replaces only the swapchain handle, the swapchain
\* configuration and the image list; the surface, current_frame and the three
\* per-frame synchronization sets are unchanged, and when the reconfiguration
\* fails none of the window's swapchain state is changed.
C23_ReconfigureReplacesOnlySwapchain == [][C23_Step]_vars

\* a reconfiguration that succeeded, then one that failed
C23_Witness ==
    /\ pc = "idle"
    /\ frames = 2
    /\ swapchain = 2
    /\ current_frame = 1
    /\ events # << >>
    /\ events[Len(events)].op = "reconfigure_swapchain"
    /\ events[Len(events)].code = "ERROR_DEVICE_LOST"
    /\ surface = 1
    /\ swapchain_sync_resources = SwapchainSyncResources


C24_Step ==
    current_frame' = IF PresentSucceeds
                     THEN (current_frame + 1) % MAX_FRAMES_IN_FLIGHT
                     ELSE current_frame

\* C24: current_frame is always a frame slot (0 or 1); it becomes
\* (current_frame + 1) mod MAX_FRAMES_IN_FLIGHT exactly when the present call of a
\* frame succeeds, and a render_frame that fails at the fence wait, the
\* acquisition, the host callback or the present leaves it unchanged.
C24_CurrentFrame == [](current_frame \in FrameSlots) /\ [][C24_Step]_vars

\* two frames were presented, the counter wrapped, and a third frame failed in
\* the host callback
C24_Witness ==
    /\ pc = "idle"
    /\ frames = 3
    /\ current_frame = 0
    /\ \E e \in SeqRange(events) : e.op = "callback" /\ e.code = "ERROR_DEVICE_LOST"
    /\ swapchain = 1


\* every QueueRef of the labeled map and every index of the unlabeled map
AllRefs ==
    {labeled[l][i] : <<l, i>> \in UNION {{l} \X (1 .. Len(labeled[l])) : l \in DOMAIN labeled}}
    \cup {QueueRef(f, i) : <<f, i>> \in UNION {{f} \X unlabeled[f] : f \in DOMAIN unlabeled}}

\* C25: after a successful Device::new every QueueRef of the labeled map and every
\* (family, index) of the unlabeled map names a queue that was created, so that
\* get_queue returns a queue for it.
C25_RefsNameCreatedQueues ==
    pc = "allocated" => \A ref \in AllRefs : get_queue(Queues(priorities), ref) # {}


\* sum of the counts of the requests among reqs[1..n] that carry label l on family f
RECURSIVE LabelDemand(_, _, _, _)
LabelDemand(reqs, n, l, f) ==
    IF n = 0 THEN 0
    ELSE LabelDemand(reqs, n - 1, l, f)
         + (IF reqs[n].label = l /\ reqs[n].family = f THEN reqs[n].count ELSE 0)

\* the number of QueueRefs of family f stored under label l
StoredUnder(l, f) ==
    IF l \in DOMAIN labeled
    THEN Cardinality({i \in 1 .. Len(labeled[l]) : labeled[l][i].family = f})
    ELSE 0

\* C26: after a successful allocation the number of QueueRefs of family f stored
\* under label l equals the sum of the counts of all requests carrying l on f,
\* also when several requests of the same kind carry the same label on the same
\* family; the per-family running count never goes below zero.
C26_LabelCountsExact ==
    /\ pc = "allocated" =>
           \A l \in AllLabels, f \in ReqFamilies :
               StoredUnder(l, f) = LabelDemand(queue_requests, Len(queue_requests), l, f)
    /\ overflow_checks = "unset"


\* strict demand of family f that carries a label
RECURSIVE LabeledStrictDemand(_, _, _)
LabeledStrictDemand(reqs, n, f) ==
    IF n = 0 THEN 0
    ELSE LabeledStrictDemand(reqs, n - 1, f)
         + (IF reqs[n].family = f /\ ~reqs[n].allow_merge /\ reqs[n].label # NoLabel
            THEN reqs[n].count ELSE 0)

\* the indices reserved for the unlabeled strict demand of family f: the strict
\* slots after the labeled ones
StrictUnlabeledIndices(f) ==
    LabeledStrictDemand(queue_requests, Len(queue_requests), f) .. (StrictDemand(f) - 1)

\* the indices mapped for the unlabeled flexible demand of family f: the flexible
\* slots after the labeled ones, wrapped into the flexible range
FlexibleUnlabeledIndices(f) ==
    {WrappedIndex(StrictDemand(f), Capacity(f), k) :
        k \in LabeledFlexibleDemand(queue_requests, Len(queue_requests), f)
                  .. (FlexibleDemand(f) - 1)}

\* C27: after a successful allocation the unlabeled pool of a family contains
\* every index reserved for its unlabeled strict demand and every index mapped for
\* its unlabeled flexible demand; a family with both kinds keeps both sets.
C27_UnlabeledKeepsBoth ==
    pc = "allocated" =>
        \A f \in KnownFamilies :
            /\ StrictUnlabeledIndices(f) \subseteq GetOr(unlabeled, f, {})
            /\ FlexibleDemand(f) > 0 =>
                   FlexibleUnlabeledIndices(f) \subseteq GetOr(unlabeled, f, {})


\* on_queue_selection was called and returned no requests: the combined list is
\* the engine's own requests
HostReturnedNothing ==
    /\ pc \notin {"select", "queue_selection"}
    /\ result.kind \notin {"NoGraphicsFamily", "NoComputeFamily", "CallbackError"}
    /\ LabelsOf(queue_requests) \in
           {<<"Graphics", "Compute", "Transfer">>,
            <<"Graphics", "Compute", "Transfer", "Presentation">>}

\* C28: when on_queue_selection returns no requests, the engine's own requests
\* never cause a capacity error: on hardware with a graphics and a compute family
\* whose families all have at least one queue, the allocation succeeds.
C28_MandatoryRequestsFit == HostReturnedNothing => pc # "failed"


\* a render_frame call is running
InFrame == pc \in SeqRange(FrameOrder)

\* a render callback that succeeds has submitted work that signals the slot's fence
HostSubmits == pc = "queue_present" => in_flight_fences[current_frame] # "unsignaled"

\* C29: when the driver signals the fence of every submitted frame and every
\* native call returns, every render_frame call returns; in particular a call
\* issued after a frame whose render callback failed, after the slot's fence was
\* reset and before anything was submitted, does not wait forever on that fence.
C29_FrameReturns == []HostSubmits => (InFrame ~> pc = "idle")


\* C30: a strict request on a family that is not in the capacity table makes the
\* allocation fail, as a flexible request on such a family does: no allocation
\* succeeds with a request on, or QueueRefs recorded for, a family that does not
\* exist.
C30_UnknownFamilyRejected ==
    pc = "allocated" =>
        /\ \A i \in 1 .. Len(queue_requests) : queue_requests[i].family \in KnownFamilies
        /\ \A ref \in AllRefs : ref.family \in KnownFamilies

====
